---- MODULE Spec2Model ----
(***************************************************************************)
(* Chat-turn orchestration of the gdm-map-app component.                   *)
(*                                                                         *)
(* Strings are modelled as sequences of tokens.  An `await` of the source  *)
(* is a suspension point: the async function stops there (its position is  *)
(* kept in call[c].pc) and any other event handler may run before it       *)
(* resumes.  The code between two awaits runs as one step.  The one        *)
(* exception is the rendering of a thought or text part, which is folded   *)
(* into the step that receives the chunk (see ProcessContent).             *)
(***************************************************************************)
EXTENDS Integers, Sequences, FiniteSets, TLC

\* ---------------------------------------------------------------- bounds
\* Number of sendMessageAction invocations in one behaviour.
MaxCalls == 2
\* Number of chunks the model response streams deliver in one behaviour.
MaxFragments == 2
\* Number of awaited marked.parse promises that reject in one behaviour.
MaxRejects == 1
\* Length of the enumerated tool names.
MaxIdLen == 4
\* Number of successive conversions of one tool name.
MaxApply == 2
\* Number of bucket-list commands (tool calls and clicks) in one behaviour.
MaxCmds == 3

\* ------------------------------------------------------------- ChatState
IDLE == "IDLE"
GENERATING == "GENERATING"
THINKING == "THINKING"
EXECUTING == "EXECUTING"
ChatState == {IDLE, GENERATING, THINKING, EXECUTING}

\* ---------------------------------------------------------------- inputs
\* A string is a sequence of tokens; " " is a whitespace token.
Blank == " "
\* The example prompts that setNewRandomPrompt draws from.
EXAMPLE_PROMPTS == {<<"prompt">>}
\* What the user can have typed into the input field before the chat starts
\* (the constructor puts an example prompt there).
InputVals == {<<Blank>>}
\* The transcript of a free-form voice command (already lower-cased).
VoiceVals == {<<"what", "is", "that">>}
\* The text of a streamed text part (truthy, so never the empty string).
TextVals == {<<"A">>, <<Blank>>}
\* The content of a streamed thought part (truthy).
ThoughtVals == {<<"T">>}
Uris == {"u1", "u2"}
\* "" is a grounding chunk without a title.
Titles == {"t1", "t2", ""}
ErrVals == {"boom"}
NoMessage == << >>
NoName == ""

\* A streamed chunk holds one candidate: either grounding chunks (g), or one
\* part carrying a functionCall (fc), a thought or a text.  A chunk with
\* several candidates or parts, or a part with a functionCall beside its text,
\* acts as these chunks in a row; a chunk without content changes nothing.
GroundingChunks ==
  {<<[uri |-> "u1", title |-> t]>> : t \in Titles}
  \cup {<<[uri |-> "u2", title |-> "t1"]>>}
Fragments ==
  [g : GroundingChunks, fc : {FALSE}, kind : {"none"}, text : {<< >>}]
  \cup
  [g : {<< >>}, fc : {TRUE}, kind : {"none"}, text : {<< >>}]
  \cup
  [g : {<< >>}, fc : {FALSE}, kind : {"thought"}, text : ThoughtVals]
  \cup
  [g : {<< >>}, fc : {FALSE}, kind : {"text"}, text : TextVals]

\* ----------------------------------------------------------------- state
VARIABLES
  chatState,                \* MapApp.chatState
  inputMessage,             \* MapApp.inputMessage
  messages,                 \* MapApp.messages, the DOM elements as records
  shouldSpeakNextResponse,  \* MapApp.shouldSpeakNextResponse
  isExplorationMode,        \* MapApp.isExplorationMode
  currentLocationName,      \* MapApp.currentLocationName (NoName for null)
  nCalls,                   \* sendMessageAction invocations so far
  call,                     \* per invocation: position and local variables
  spoken,                   \* the calls of speak(), in order
  nRejects,                 \* marked.parse promises that rejected so far
  ident,                    \* part.functionCall.name, a sequence of characters
  dashed,                   \* the successive results of camelCaseToDash
  thrown,                   \* the value e caught by the inner catch block
  errorText,                \* the text handed to marked.parse in the catch block
  bucketList,               \* MapApp.bucketList
  selectedChatTab,          \* MapApp.selectedChatTab
  bucketMarkers,            \* MapApp.bucketMarkers: entries [id, marker]
  mapChildren,              \* the bucket markers that are children of the map
  storage,                  \* localStorage item 'gdm-bucket-list'
  mapLoad,                  \* loadMap: "loading", "ready" or "failed"
  changed,                  \* changedProperties has 'bucketList' (update pending)
  pending,                  \* geocode requests whose callback has not run
  created,                  \* ids and markers created so far
  lastSave,                 \* the last localStorage.setItem: "none", "ok", "failed"
  events,                   \* the count of commands and callbacks so far (n)
                            \* and the most recent of them, in order (recent)
  rawStored,                \* what localStorage holds under 'gdm-bucket-list'
                            \* when the component is constructed
  listValue,                \* this.bucketList as a JavaScript value
  uncaught,                 \* the exception a handler or render let escape
  loadOps,                  \* operations on the loaded list so far
  invoked,                  \* the tool invocations so far: tool, arguments and
                            \* the content returned
  routed,                   \* the MapParams handleMapQuery was called with, in
                            \* order
  mapInitialized,           \* the map, the geocoder and the services are set
  searchMarker,             \* the search marker's element, 0 for undefined
  routeElems,               \* routePolyline, originMarker, destinationMarker
  routePath,                \* the stored route path
  tempChildren,             \* the search and route elements attached to the map
  currentLocation,          \* this.currentLocation, NoLocation for undefined
  showPano,                 \* the panorama is shown
  viewPending,              \* geocode, route and panorama requests in flight
  viewSteps,                \* commands and callbacks so far (n), commands (cmds)
  viewLast,                 \* the callback that ran last, with its request
  made,                     \* map elements created so far
  avatarPose,               \* avatarLat, avatarLng, avatarHeading
  panorama,                 \* this.panorama is set
  isAvatarMode,
  isOrbiting,
  isSimulating,
  animationFrameId,         \* the avatar loop has a frame requested
  orbitFrameId,             \* the standalone orbit loop has a frame requested
  timers,                   \* setTimeout(toggleExplorationMode) not yet fired
  mapHeading,               \* map.heading, in steps of the loops
  exploreLast,              \* the exploration event that ran last
  exploreCmds,              \* exploration commands and clicks so far
  flyovers,                 \* startFlyover calls that have not returned
  povHeading,               \* the heading of panorama.getPov()
  panoLinks,                \* panorama.getLinks() of the current panorama
  panoId,                   \* the panorama shown (its pano id)
  panoLast,                 \* the last forward or backward step: what it read
                            \* and what it did
  panoOps,                  \* steps and rotations in the panorama so far
  playbacks,                \* the startFlyover calls, in order: position, loop
                            \* variables and the keyframes flown to
  isListening,              \* MapApp.isListening
  recognition,              \* this.recognition: whether it is set and started
                            \* (current), and the replaced objects that are
                            \* still started (old)
  voiceLast                 \* the transcript handled last: its number, the
                            \* branch taken, avatar mode before and after

chatVars == <<chatState, inputMessage, messages, shouldSpeakNextResponse,
              isExplorationMode, currentLocationName, nCalls, call, spoken,
              nRejects>>
caseVars == <<ident, dashed>>
errVars == <<thrown, errorText>>
bucketVars == <<bucketList, selectedChatTab, bucketMarkers, mapChildren, storage,
                mapLoad, changed, pending, created, lastSave, events>>
loadVars == <<rawStored, listValue, uncaught, loadOps>>
toolVars == <<invoked, routed>>
viewVars == <<mapInitialized, searchMarker, routeElems, routePath, tempChildren,
              currentLocation, showPano, viewPending, viewSteps, viewLast, made,
              avatarPose, panorama>>
exploreVars == <<isAvatarMode, isOrbiting, isSimulating, animationFrameId,
                 orbitFrameId, timers, mapHeading, exploreLast, exploreCmds,
                 flyovers>>
panoVars == <<povHeading, panoLinks, panoId, panoLast, panoOps>>
flyVars == <<playbacks>>
voiceVars == <<isListening, recognition, voiceLast>>
lateVars == <<panoVars, flyVars, voiceVars>>
extVars == <<loadVars, toolVars, viewVars, exploreVars, lateVars>>
vars == <<chatVars, caseVars, errVars, bucketVars, extVars>>

Calls == 1..MaxCalls

\* ------------------------------------------------------- string helpers
IsBlankTok(t) == t = Blank

RECURSIVE TrimLeft(_)
TrimLeft(s) ==
  IF s = << >> THEN << >>
  ELSE IF IsBlankTok(Head(s)) THEN TrimLeft(Tail(s)) ELSE s

RECURSIVE TrimRight(_)
TrimRight(s) ==
  IF s = << >> THEN << >>
  ELSE IF IsBlankTok(s[Len(s)]) THEN TrimRight(SubSeq(s, 1, Len(s) - 1)) ELSE s

\* String.prototype.trim
Trim(s) == TrimRight(TrimLeft(s))

Includes(s, tok) == \E i \in 1..Len(s) : s[i] = tok

\* marked.parse: blank input renders to the empty string, anything else to a
\* paragraph around the trimmed text.
MarkedParse(s) ==
  IF Trim(s) = << >> THEN << >> ELSE <<"<p>">> \o Trim(s) \o <<"</p>">>

PLACEHOLDER == <<"...">>
CALLING == "Calling function:"

\* The markdown source of a tool-call message.
Explanation == <<CALLING, "json:", "mcpCall">>

\* --------------------------------------------------------- uniqueSources
\* A JavaScript Map as a sequence of entries in insertion order.
HasKey(m, k) == \E i \in 1..Len(m) : m[i].uri = k

\* Map.prototype.set: an existing key keeps its position and takes the new
\* value, a new key is appended.
MapSet(m, k, v) ==
  IF HasKey(m, k)
  THEN [i \in 1..Len(m) |-> IF m[i].uri = k THEN [uri |-> k, title |-> v] ELSE m[i]]
  ELSE Append(m, [uri |-> k, title |-> v])

\* The groundingChunks.forEach of one candidate.
RECURSIVE CollectSources(_, _)
CollectSources(m, g) ==
  IF g = << >> THEN m
  ELSE CollectSources(
         IF Head(g).uri # "" /\ Head(g).title # ""
         THEN MapSet(m, Head(g).uri, Head(g).title)
         ELSE m,
         Tail(g))

\* First occurrence of each URI among the chunks that carry a title, in
\* arrival order (what the turn has seen, kept beside the Map).
RECURSIVE NoteFirstSeen(_, _)
NoteFirstSeen(m, g) ==
  IF g = << >> THEN m
  ELSE NoteFirstSeen(
         IF Head(g).uri # "" /\ Head(g).title # "" /\ ~HasKey(m, Head(g).uri)
         THEN Append(m, Head(g))
         ELSE m,
         Tail(g))

Chip(e) == "<a href=" \o e.uri \o " title=" \o e.title \o ">"

\* The Sources block appended to the answer element.
SourcesHtml(m) ==
  <<"<sources>">> \o [i \in 1..Len(m) |-> Chip(m[i])] \o <<"</sources>">>

\* --------------------------------------------------------------- messages
\* addMessage: a new turn element with an empty, closed thinking section.
\* owner records the sendMessageAction invocation that created it.
NewMessage(role, message, owner) ==
  [role |-> role, html |-> message, think |-> << >>,
   open |-> FALSE, hidden |-> FALSE, owner |-> owner]

\* el.innerHTML of a whole turn element: thinking section, then the text.
InnerHTML(m) == <<"Thinking process">> \o m.think \o m.html

\* --------------------------------------------------------------- locals
NoCall ==
  [pc |-> "new", msg |-> << >>, usedComponentInput |-> FALSE,
   userIdx |-> 0, textIdx |-> 0, pendIdx |-> 0,
   pendKind |-> "none", pendText |-> << >>,
   newCode |-> << >>, thoughtAccumulator |-> << >>,
   uniqueSources |-> << >>, firstSeen |-> << >>,
   nFrag |-> 0,
   \* who called and what happened to the turn, kept for the properties:
   via |-> "none",          \* "typed", "voice" or "narration"
   streamEnded |-> FALSE,   \* the for-await loop ran to the end of the stream
   streamFailed |-> FALSE,  \* the inner catch block was entered
   postDone |-> FALSE,      \* post-processing was reached
   narration |-> FALSE]     \* the narration flag was set before the turn, or
                            \* while its fragments were arriving

RECURSIVE SumFragments(_)
SumFragments(n) == IF n = 0 THEN 0 ELSE call[n].nFrag + SumFragments(n - 1)
\* Chunks delivered so far, over all streams.
TotalFragments == SumFragments(MaxCalls)

\* Positions inside sendMessageHandler.
HandlerPcs ==
  {"stream", "renderCall", "renderError", "renderDone"}
\* Positions of an invocation that has passed the IDLE check and whose turn
\* has not been finalized.
InFlightPcs == {"parseUser"} \cup HandlerPcs

\* ChatTab.
GEMINI == "GEMINI"
BUCKET_LIST == "BUCKET_LIST"
ChatTab == {GEMINI, BUCKET_LIST}
\* localStorage.getItem returns null: nothing is stored under the key.
NoItem == [kind |-> "null", items |-> << >>]
\* The bucket list and the map before the component is used.
BucketIdle ==
  /\ bucketList = << >> /\ selectedChatTab = GEMINI
  /\ bucketMarkers = << >> /\ mapChildren = {} /\ storage = NoItem
  /\ mapLoad = "loading" /\ changed = FALSE /\ pending = << >>
  /\ created = [ids |-> 0, markers |-> 0] /\ lastSave = "none"
  /\ events = [n |-> 0, cmds |-> 0, recent |-> << >>]

\* A JavaScript value as far as the list operations tell values apart: its
\* type and, for an array, its elements.
JsValue(t, items) == [t |-> t, items |-> items]
EmptyArray == JsValue("array", << >>)
\* Nothing is stored and the list is not operated on.
LoadIdle ==
  /\ rawStored = [kind |-> "null", value |-> EmptyArray]
  /\ listValue = EmptyArray /\ uncaught = "none" /\ loadOps = 0
\* No tool has been invoked.
ToolIdle == invoked = << >> /\ routed = << >>
\* No route is shown.
NoRoute == [polyline |-> 0, origin |-> 0, destination |-> 0]
\* No callback has run.
NoCallback == [kind |-> "none", ok |-> FALSE, at |-> 0, before |-> << >>]
\* The map before it is loaded and used.
ViewIdle ==
  /\ mapInitialized = FALSE /\ searchMarker = 0 /\ routeElems = NoRoute
  /\ routePath = << >> /\ tempChildren = {}
  /\ currentLocation = [lat |-> 0, lng |-> 0] /\ showPano = FALSE
  /\ viewPending = << >> /\ viewSteps = [n |-> 0, cmds |-> 0]
  /\ viewLast = NoCallback /\ made = 0
  /\ avatarPose = [lat |-> 0, lng |-> 0, heading |-> 0] /\ panorama = FALSE
\* No exploration, no orbit, no loop.
ExploreIdle ==
  /\ isAvatarMode = FALSE /\ isOrbiting = FALSE /\ isSimulating = FALSE
  /\ animationFrameId = FALSE /\ orbitFrameId = FALSE /\ timers = 0
  /\ mapHeading = 0 /\ exploreLast = "none" /\ exploreCmds = 0 /\ flyovers = 0
\* The variables of the later sections before the component is used.
\* No step was taken in a panorama.
NoPanoStep == [kind |-> "none", heading |-> 0, links |-> << >>, from |-> 0,
               to |-> 0]
\* No panorama is walked.
PanoIdle ==
  /\ povHeading = 0 /\ panoLinks = << >> /\ panoId = 0
  /\ panoLast = NoPanoStep /\ panoOps = 0
\* startFlyover was never called.
FlyIdle == playbacks = << >>
\* No transcript was handled.
NoTranscript == [n |-> 0, command |-> << >>, branch |-> "none",
                 avatarBefore |-> FALSE, avatarAfter |-> FALSE]
\* Speech recognition was never set up.
VoiceIdle ==
  /\ isListening = FALSE /\ recognition = [current |-> "none", old |-> 0]
  /\ voiceLast = NoTranscript
LateIdle == PanoIdle /\ FlyIdle /\ VoiceIdle
ExtIdle == LoadIdle /\ ToolIdle /\ ViewIdle /\ ExploreIdle /\ LateIdle

\* No caught value is being turned into an error text.
NoError == [kind |-> "none"]
ErrIdle == thrown = NoError /\ errorText = << >>

\* No tool name is being converted.
CaseIdle == ident = << >> /\ dashed = << >>

\* The exploration session a chat starts in: none yet (no location viewed),
\* or exploring a viewed location.
Sessions ==
  {[isExplorationMode |-> FALSE, currentLocationName |-> NoName],
   [isExplorationMode |-> TRUE, currentLocationName |-> "Kyoto"]}

Init ==
  /\ chatState = IDLE
  /\ inputMessage \in EXAMPLE_PROMPTS \cup InputVals
  /\ messages = << >>
  /\ shouldSpeakNextResponse = FALSE
  /\ \E s \in Sessions : /\ isExplorationMode = s.isExplorationMode
                         /\ currentLocationName = s.currentLocationName
  /\ nCalls = 0
  /\ call = [c \in Calls |-> NoCall]
  /\ spoken = << >>
  /\ nRejects = 0
  /\ CaseIdle
  /\ ErrIdle
  /\ BucketIdle
  /\ ExtIdle

\* ------------------------------------------------- handler, step by step
\* The part of the state one invocation reads and writes while it runs: the
\* message list, ChatState, its locals (l), the narration flag and the speech
\* log.  c is the invocation.
Ctx(c) ==
  [msgs |-> messages, cs |-> chatState, l |-> call[c],
   flag |-> shouldSpeakNextResponse, spoken |-> spoken, c |-> c]

Commit(h) ==
  /\ messages' = h.msgs
  /\ chatState' = h.cs
  /\ call' = [call EXCEPT ![h.c] = h.l]
  /\ shouldSpeakNextResponse' = h.flag
  /\ spoken' = h.spoken

setChatState(h, state) == [h EXCEPT !.cs = state]

addMessage(h, role, message) ==
  [h EXCEPT !.msgs = Append(@, NewMessage(role, message, h.c))]

\* speak(text): the markdown symbols are stripped and the utterance is handed
\* to the speech engine.
MarkdownSyms == {"*", "#", "_", "[", "]", "(", ")"}
CleanText(text) == SelectSeq(text, LAMBDA t : t \notin MarkdownSyms)
speak(h, text) ==
  [h EXCEPT !.spoken = Append(@, [turn |-> h.c, text |-> text,
                                  utterance |-> CleanText(text)])]

\* A finally block that does not reset ChatState.
Finally_NoReset(h) == h

\* The finally block of the outer try.
Finally(h) == setChatState(h, IDLE)

\* The wire-level message of a caught error, as rendered.
ErrorMarkdown(e) == <<"Error:", e>>

\* sendMessageHandler up to its first await: the answer element is created,
\* ChatState becomes GENERATING, the placeholder is shown and the stream is
\* requested.
EnterHandler(h) ==
  LET h1 == addMessage(h, "assistant", << >>)
      idx == Len(h1.msgs)
      h2 == setChatState(h1, GENERATING)
      h3 == [h2 EXCEPT !.msgs[idx].html = PLACEHOLDER]
  IN [h3 EXCEPT !.l.textIdx = idx, !.l.pc = "stream", !.l.narration = h.flag]

\* A catch block that creates two error elements.
Catch_Twice(h, e) ==
  LET h1 == addMessage(addMessage(h, "error", << >>), "error", << >>)
  IN [h1 EXCEPT !.l.pendIdx = Len(h1.msgs), !.l.pendText = ErrorMarkdown(e),
                !.l.pendKind = "none", !.l.pc = "renderError"]

\* The catch block up to its await: the error element is created empty and
\* its text is being rendered.
Catch(h, e) ==
  LET h1 == addMessage(h, "error", << >>)
  IN [h1 EXCEPT !.l.pendIdx = Len(h1.msgs), !.l.pendText = ErrorMarkdown(e),
                !.l.pendKind = "none", !.l.pc = "renderError"]

\* An error thrown inside the inner try reaches its catch block.
Throw(h, e) == Catch([h EXCEPT !.l.streamFailed = TRUE], e)

\* Whether any element of the message list shows a tool call.
hasFunctionCallMessage(msgs) ==
  \E i \in 1..Len(msgs) : Includes(InnerHTML(msgs[i]), CALLING)

\* Post-processing after the inner try/catch, up to the await of the "Done."
\* rendering or, without it, through the finally block to the handler's return.
PostProcess(h) ==
  LET t == h.l.textIdx
      h0 == [h EXCEPT !.l.postDone = TRUE]
      \* the thinking section: hidden when opened without content, and closed
      h1 == IF h0.msgs[t].open
            THEN [h0 EXCEPT !.msgs[t].hidden =
                                IF h0.l.thoughtAccumulator = << >> THEN TRUE ELSE @,
                            !.msgs[t].open = FALSE]
            ELSE h0
      \* the Sources block
      h2 == IF Len(h1.l.uniqueSources) > 0
            THEN [h1 EXCEPT !.msgs[t].html = @ \o SourcesHtml(h1.l.uniqueSources)]
            ELSE h1
      html == h2.msgs[t].html
  IN IF Trim(html) = PLACEHOLDER \/ Len(Trim(html)) = 0
     THEN IF ~hasFunctionCallMessage(h2.msgs)
          THEN [h2 EXCEPT !.l.pc = "renderDone"]
          ELSE IF Trim(html) = PLACEHOLDER
               THEN [Finally([h2 EXCEPT !.msgs[t].html = << >>])
                       EXCEPT !.l.pc = "resume"]
               ELSE [Finally(h2) EXCEPT !.l.pc = "resume"]
     ELSE [Finally(h2) EXCEPT !.l.pc = "resume"]

\* The narration step that follows the for-await loop inside the inner try.
Narrate(h) ==
  IF h.flag /\ h.l.newCode # << >>
  THEN [speak(h, h.l.newCode) EXCEPT !.flag = FALSE]
  ELSE h

\* The thought / text branch of one part and scrollToTheEnd.  The await of
\* marked.parse inside the branch is taken with it: ChatState is set before
\* the await, and what is written after it (the thinking or answer text of
\* this turn's own element) is read by no other handler.  ok = FALSE: the
\* rendering throws, which the inner catch handles.
ProcessContent(h, kind, text, ok, e) ==
  LET t == h.l.textIdx IN
  IF kind = "thought"
  THEN LET h1 == [setChatState(h, THINKING)
                    EXCEPT !.l.thoughtAccumulator = @ \o <<Blank>> \o text]
       IN IF ok
          THEN [h1 EXCEPT !.msgs[t].think = MarkedParse(h1.l.thoughtAccumulator),
                          !.msgs[t].hidden = FALSE,
                          !.msgs[t].open = TRUE,
                          !.l.pc = "stream"]
          ELSE Throw(h1, e)
  ELSE IF kind = "text"
  THEN LET h1 == [setChatState(h, EXECUTING) EXCEPT !.l.newCode = @ \o text]
       IN IF ok
          THEN [h1 EXCEPT !.msgs[t].html = MarkedParse(h1.l.newCode),
                          !.l.pc = "stream"]
          ELSE Throw(h1, e)
  ELSE [h EXCEPT !.l.pc = "stream"]

\* One chunk taken from the stream: its grounding chunks are collected, then
\* its part is handled up to the first await.
ProcessChunk(h, f, ok, e) ==
  LET h1 == [h EXCEPT !.l.uniqueSources = CollectSources(@, f.g),
                      !.l.firstSeen = NoteFirstSeen(@, f.g),
                      !.l.nFrag = @ + 1]
  IN IF f.fc
     THEN LET h2 == addMessage(h1, "assistant", << >>)
          IN [h2 EXCEPT !.l.pendIdx = Len(h2.msgs), !.l.pendKind = f.kind,
                        !.l.pendText = f.text, !.l.pc = "renderCall"]
     ELSE ProcessContent(h1, f.kind, f.text, ok, e)

\* ------------------------------------------------------ sendMessageAction
\* A guard that lets every call through.
MayStartTurn_Always(state) == TRUE

\* The guard at the top of sendMessageAction.
MayStartTurn(state) == state = IDLE

\* The caller set the narration flag (flagSet): the turns whose fragments are
\* still arriving are marked; nothing else is changed.
NoteNarration(calls, flagSet) ==
  [c \in Calls |->
     IF flagSet /\ calls[c].pc \in {"stream", "renderCall"}
     THEN [calls[c] EXCEPT !.narration = TRUE]
     ELSE calls[c]]

\* sendMessageAction(message, 'user') up to its first await or return.
\* message = NoMessage is a call without argument (the input field is used).
\* Every caller in the source passes role 'user' or none, so msgRole = 'user'.
sendMessageAction(message, flagSet, via) ==
  LET c == nCalls + 1
      calls == [NoteNarration(call, flagSet) EXCEPT ![c].via = via] IN
  /\ nCalls < MaxCalls
  /\ nCalls' = c
  /\ IF ~MayStartTurn(chatState)
     THEN /\ call' = [calls EXCEPT ![c].pc = "rejected"]
          /\ UNCHANGED <<messages, inputMessage, chatState>>
     ELSE LET fromInput == message = NoMessage
              msg == IF fromInput THEN Trim(inputMessage) ELSE Trim(message)
              used == fromInput /\ Len(inputMessage) > 0
          IN IF Len(msg) = 0
             THEN /\ call' = [calls EXCEPT ![c].pc = "empty",
                                           ![c].usedComponentInput = used]
                  /\ IF used
                     THEN inputMessage' \in EXAMPLE_PROMPTS
                     ELSE inputMessage' = inputMessage
                  /\ UNCHANGED <<messages, chatState>>
             ELSE /\ messages' = Append(messages, NewMessage("user", PLACEHOLDER, c))
                  /\ call' = [calls EXCEPT ![c].pc = "parseUser",
                                           ![c].msg = msg,
                                           ![c].usedComponentInput = used,
                                           ![c].userIdx = Len(messages) + 1]
                  /\ inputMessage' = IF used THEN << >> ELSE inputMessage
                  /\ UNCHANGED chatState

\* Enter in the text field, or a click on the send button.
TypedSend ==
  /\ sendMessageAction(NoMessage, FALSE, "typed")
  /\ UNCHANGED <<shouldSpeakNextResponse, isExplorationMode,
                 currentLocationName, spoken, nRejects, caseVars, errVars, bucketVars, extVars>>

\* handleVoiceCommand with a transcript that matches no keyword.
VoiceQuery ==
  \E command \in VoiceVals :
    /\ shouldSpeakNextResponse' =
         IF isExplorationMode THEN TRUE ELSE shouldSpeakNextResponse
    /\ sendMessageAction(command, isExplorationMode, "voice")
    /\ UNCHANGED <<isExplorationMode, currentLocationName, spoken, nRejects,
                   caseVars, errVars, bucketVars, extVars>>

NarrationPrompt(context) == <<"I am exploring", context, "Act as a virtual tour guide.">>

\* triggerNarration: the narrate button, the narrate voice keywords and the
\* timer started on entering exploration mode.
triggerNarration ==
  /\ nCalls < MaxCalls
  /\ IF currentLocationName = NoName
     THEN /\ nCalls' = nCalls + 1
          /\ call' = [call EXCEPT ![nCalls + 1].pc = "nolocation",
                                  ![nCalls + 1].via = "narration"]
          /\ UNCHANGED <<chatState, inputMessage, messages, shouldSpeakNextResponse>>
     ELSE /\ shouldSpeakNextResponse' = TRUE
          /\ sendMessageAction(NarrationPrompt(currentLocationName), TRUE,
                               "narration")
  /\ UNCHANGED <<isExplorationMode, currentLocationName, spoken, nRejects,
                 caseVars, errVars, bucketVars, extVars>>

\* ----------------------------------------------------------- resumptions
\* An await resumes.  ok = FALSE: the awaited promise rejected.
Others == <<inputMessage, isExplorationMode, currentLocationName, nCalls,
            caseVars, errVars, bucketVars, extVars>>

\* The awaited promise settles: it resolves (ok) or rejects.
Settle(ok) ==
  /\ ok \/ nRejects < MaxRejects
  /\ nRejects' = IF ok THEN nRejects ELSE nRejects + 1

\* await marked.parse(msg) in sendMessageAction; then the handler is entered.
ParseUserDone(c, ok) ==
  /\ call[c].pc = "parseUser"
  /\ Settle(ok)
  /\ IF ok
     THEN Commit(EnterHandler(
            [Ctx(c) EXCEPT !.msgs[call[c].userIdx].html = MarkedParse(call[c].msg)]))
     ELSE Commit([Ctx(c) EXCEPT !.l.pc = "aborted"])
  /\ UNCHANGED Others

\* The stream delivers its next chunk.
StreamChunk(c, f, ok, e) ==
  /\ call[c].pc = "stream"
  /\ TotalFragments < MaxFragments
  /\ ok \/ (~f.fc /\ f.kind # "none")
  /\ Settle(ok)
  /\ Commit(ProcessChunk(Ctx(c), f, ok, e))
  /\ UNCHANGED Others

\* The stream ends: narration, then post-processing.
StreamEnd(c) ==
  /\ call[c].pc = "stream"
  /\ Commit(PostProcess(Narrate([Ctx(c) EXCEPT !.l.streamEnded = TRUE])))
  /\ UNCHANGED <<Others, nRejects>>

\* Requesting the stream or reading its next chunk throws.
StreamThrows(c, e) ==
  /\ call[c].pc = "stream"
  /\ Commit(Throw(Ctx(c), e))
  /\ UNCHANGED <<Others, nRejects>>

\* await marked.parse(explanation) of a tool-call message, then the rest of
\* the part.
RenderCallDone(c, okCall, ok, e) ==
  /\ call[c].pc = "renderCall"
  /\ ok \/ (okCall /\ call[c].pendKind # "none")
  /\ Settle(okCall /\ ok)
  /\ LET h == Ctx(c) IN
     IF okCall
     THEN Commit(ProcessContent(
            [h EXCEPT !.msgs[h.l.pendIdx].html = MarkedParse(Explanation),
                      !.l.pendIdx = 0, !.l.pendKind = "none", !.l.pendText = << >>],
            h.l.pendKind, h.l.pendText, ok, e))
     ELSE Commit(Throw(h, e))
  /\ UNCHANGED Others

\* await marked.parse(`Error: ...`) in the catch block.  If it throws, only
\* the finally block runs and the handler's promise rejects.
RenderErrorDone(c, ok) ==
  /\ call[c].pc = "renderError"
  /\ Settle(ok)
  /\ LET h == Ctx(c) IN
     IF ok
     THEN Commit(PostProcess(
            [h EXCEPT !.msgs[h.l.pendIdx].html = MarkedParse(h.l.pendText),
                      !.l.pendIdx = 0, !.l.pendText = << >>]))
     ELSE Commit([Finally(h) EXCEPT !.l.pc = "failed"])
  /\ UNCHANGED Others

\* await marked.parse('Done.') in post-processing.
RenderDoneDone(c, ok) ==
  /\ call[c].pc = "renderDone"
  /\ Settle(ok)
  /\ LET h == Ctx(c) IN
     IF ok
     THEN Commit([Finally([h EXCEPT !.msgs[h.l.textIdx].html = MarkedParse(<<"Done.">>)])
                    EXCEPT !.l.pc = "resume"])
     ELSE Commit([Finally(h) EXCEPT !.l.pc = "failed"])
  /\ UNCHANGED Others

\* await this.sendMessageHandler(...) resumes in sendMessageAction.
Resume(c) ==
  /\ call[c].pc = "resume"
  /\ call' = [call EXCEPT ![c].pc = "done"]
  /\ IF call[c].usedComponentInput
     THEN inputMessage' \in EXAMPLE_PROMPTS
     ELSE inputMessage' = inputMessage
  /\ UNCHANGED <<chatState, messages, shouldSpeakNextResponse,
                 isExplorationMode, currentLocationName, nCalls, spoken, nRejects,
                 caseVars, errVars, bucketVars, extVars>>

\* One step of invocation c.
Step(c) ==
  \/ \E ok \in BOOLEAN : ParseUserDone(c, ok)
  \/ \E f \in Fragments, ok \in BOOLEAN, e \in ErrVals : StreamChunk(c, f, ok, e)
  \/ StreamEnd(c)
  \/ \E e \in ErrVals : StreamThrows(c, e)
  \/ \E okCall \in BOOLEAN, ok \in BOOLEAN, e \in ErrVals :
       RenderCallDone(c, okCall, ok, e)
  \/ \E ok \in BOOLEAN : RenderErrorDone(c, ok)
  \/ \E ok \in BOOLEAN : RenderDoneDone(c, ok)
  \/ Resume(c)

Next ==
  \/ TypedSend
  \/ VoiceQuery
  \/ triggerNarration
  \/ \E c \in Calls : Step(c)

Spec == Init /\ [][Next]_vars

\* ------------------------------------------------- tool name conversion
\* A tool name is a sequence of one-character strings.
LowerChars == <<"a", "b", "c", "d", "e", "f", "g", "h", "i", "j", "k", "l", "m", "n", "o", "p", "q", "r", "s", "t", "u", "v", "w", "x", "y", "z">>
UpperChars == <<"A", "B", "C", "D", "E", "F", "G", "H", "I", "J", "K", "L", "M", "N", "O", "P", "Q", "R", "S", "T", "U", "V", "W", "X", "Y", "Z">>
IsLower(ch) == \E i \in 1..Len(LowerChars) : LowerChars[i] = ch
IsUpper(ch) == \E i \in 1..Len(UpperChars) : UpperChars[i] = ch

\* A conversion that keeps the case of every character.
toLowerCase_Keep(str) == str

\* String.prototype.toLowerCase.
toLowerCase(str) ==
  [i \in 1..Len(str) |->
     IF IsUpper(str[i])
     THEN LowerChars[CHOOSE k \in 1..Len(UpperChars) : UpperChars[k] = str[i]]
     ELSE str[i]]

\* .replace(/([a-z])([A-Z])/g, '$1-$2'): the matches are taken from left to
\* right and the search goes on after the end of each match.
RECURSIVE ReplaceLowerUpper(_)
ReplaceLowerUpper(str) ==
  IF Len(str) < 2 THEN str
  ELSE IF IsLower(str[1]) /\ IsUpper(str[2])
       THEN <<str[1], "-", str[2]>> \o ReplaceLowerUpper(SubSeq(str, 3, Len(str)))
       ELSE <<str[1]>> \o ReplaceLowerUpper(Tail(str))

\* .replace(/([A-Z])([A-Z][a-z])/g, '$1-$2').
RECURSIVE ReplaceUpperUpperLower(_)
ReplaceUpperUpperLower(str) ==
  IF Len(str) < 3 THEN str
  ELSE IF IsUpper(str[1]) /\ IsUpper(str[2]) /\ IsLower(str[3])
       THEN <<str[1], "-", str[2], str[3]>>
              \o ReplaceUpperUpperLower(SubSeq(str, 4, Len(str)))
       ELSE <<str[1]>> \o ReplaceUpperUpperLower(Tail(str))

camelCaseToDash(str) ==
  toLowerCase(ReplaceUpperUpperLower(ReplaceLowerUpper(str)))

\* The characters of the enumerated tool names: letters of both cases and a
\* digit.
IdChars == {"a", "b", "A", "B", "1"}
viewLocationGoogleMaps == <<"v", "i", "e", "w", "L", "o", "c", "a", "t", "i", "o", "n", "G", "o", "o", "g", "l", "e", "M", "a", "p", "s">>
RECURSIVE NamesOfLen(_)
NamesOfLen(n) ==
  IF n = 0 THEN {<< >>}
  ELSE {Append(w, ch) : w \in NamesOfLen(n - 1), ch \in IdChars}
\* The tool names a function call can carry: every name of 1..MaxIdLen
\* characters, and the name of the view-location tool.
Identifiers ==
  UNION {NamesOfLen(n) : n \in 1..MaxIdLen} \cup {viewLocationGoogleMaps}

\* The chat variables while only a tool name is converted.
ChatIdle ==
  /\ chatState = IDLE /\ inputMessage = << >> /\ messages = << >>
  /\ shouldSpeakNextResponse = FALSE /\ isExplorationMode = FALSE
  /\ currentLocationName = NoName /\ nCalls = 0
  /\ call = [c \in Calls |-> NoCall] /\ spoken = << >> /\ nRejects = 0

CaseInit ==
  /\ ident \in Identifiers
  /\ dashed = << >>
  /\ ChatIdle
  /\ ErrIdle
  /\ BucketIdle
  /\ ExtIdle

\* mcpCall.name = camelCaseToDash(name): the name, or the wire-level name
\* obtained from it, is converted.
Convert ==
  /\ Len(dashed) < MaxApply
  /\ dashed' = Append(dashed, camelCaseToDash(
                  IF dashed = << >> THEN ident ELSE dashed[Len(dashed)]))
  /\ UNCHANGED <<ident, chatVars, errVars, bucketVars, extVars>>

CaseNext == Convert
CaseSpec == CaseInit /\ [][CaseNext]_vars

\* ------------------------------------------------ error text extraction
\* A JavaScript value as far as the catch block looks into it: a string, a
\* number, null, undefined or an object with its properties in order.
JsString(x) == [t |-> "str", s |-> x, f |-> << >>]
JsNumber(x) == [t |-> "num", s |-> x, f |-> << >>]
JsNull == [t |-> "null", s |-> "", f |-> << >>]
JsUndefined == [t |-> "undef", s |-> "", f |-> << >>]
JsObject(fields) == [t |-> "obj", s |-> "", f |-> fields]

\* The contents of the string literals and the number literals of the JSON
\* texts considered.
Contents == {"error", "message", "quota exceeded", "outer", ""}
Numbers == {"429"}
\* A JSON string literal is one token: its content between double quotes.
Quote(x) == "\"" \o x \o "\""
IsLit(tok) == \E x \in Contents : Quote(x) = tok
Unquote(tok) == CHOOSE x \in Contents : Quote(x) = tok
\* The text of a string value: no token for the empty string.
TextOf(x) == IF x = "" THEN << >> ELSE <<x>>

\* JSON.stringify.
RECURSIVE JsonStringify(_)
RECURSIVE StringifyFields(_)
StringifyFields(fields) ==
  IF fields = << >> THEN << >>
  ELSE <<Quote(fields[1].k), ":">> \o JsonStringify(fields[1].v)
         \o (IF Len(fields) > 1 THEN <<",">> ELSE << >>)
         \o StringifyFields(Tail(fields))
JsonStringify(v) ==
  CASE v.t = "str" -> <<Quote(v.s)>>
    [] v.t = "num" -> <<v.s>>
    [] v.t = "obj" -> <<"{">> \o StringifyFields(v.f) \o <<"}">>
    [] OTHER -> <<"null">>

\* JSON.parse: a value from position i on; ok = FALSE is a SyntaxError.
ParseFails == [ok |-> FALSE, val |-> JsUndefined, next |-> 0]
RECURSIVE ParseValue(_, _)
RECURSIVE ParseMembers(_, _, _)
ParseValue(toks, i) ==
  IF i > Len(toks) THEN ParseFails
  ELSE IF IsLit(toks[i])
       THEN [ok |-> TRUE, val |-> JsString(Unquote(toks[i])), next |-> i + 1]
  ELSE IF toks[i] \in Numbers
       THEN [ok |-> TRUE, val |-> JsNumber(toks[i]), next |-> i + 1]
  ELSE IF toks[i] = "null"
       THEN [ok |-> TRUE, val |-> JsNull, next |-> i + 1]
  ELSE IF toks[i] = "{"
       THEN IF i + 1 <= Len(toks) /\ toks[i + 1] = "}"
            THEN [ok |-> TRUE, val |-> JsObject(<< >>), next |-> i + 2]
            ELSE ParseMembers(toks, i + 1, << >>)
  ELSE ParseFails
ParseMembers(toks, i, acc) ==
  IF i + 1 > Len(toks) \/ ~IsLit(toks[i]) \/ toks[i + 1] # ":" THEN ParseFails
  ELSE LET r == ParseValue(toks, i + 2)
           acc2 == Append(acc, [k |-> Unquote(toks[i]), v |-> r.val])
       IN IF ~r.ok \/ r.next > Len(toks) THEN ParseFails
          ELSE IF toks[r.next] = "}"
               THEN [ok |-> TRUE, val |-> JsObject(acc2), next |-> r.next + 1]
          ELSE IF toks[r.next] = ","
               THEN ParseMembers(toks, r.next + 1, acc2)
          ELSE ParseFails
JsonParse(toks) ==
  LET r == ParseValue(toks, 1)
  IN IF r.ok /\ r.next = Len(toks) + 1 THEN r ELSE ParseFails

\* v[key]: the last property of that name, undefined when there is none or
\* v is not an object.
GetProp(v, key) ==
  LET at == {i \in 1..Len(v.f) : v.f[i].k = key}
  IN IF v.t = "obj" /\ at # {}
     THEN v.f[CHOOSE i \in at : \A j \in at : j <= i].v
     ELSE JsUndefined

\* String.prototype.indexOf / lastIndexOf of one token; -1 when absent.
IndexOf(text, tok) ==
  IF Includes(text, tok)
  THEN CHOOSE i \in 1..Len(text) :
         text[i] = tok /\ \A j \in 1..(i - 1) : text[j] # tok
  ELSE -1
LastIndexOf(text, tok) ==
  IF Includes(text, tok)
  THEN CHOOSE i \in 1..Len(text) :
         text[i] = tok /\ \A j \in (i + 1)..Len(text) : text[j] # tok
  ELSE -1

UNEXPECTED == "Unexpected error:"

\* The first part of the catch block: the base text of the caught value.
BaseErrorText(e) ==
  CASE e.kind = "Error" -> e.message
    [] e.kind = "string" -> e.message
    [] e.kind = "object" /\ GetProp(e.val, "message").t = "str"
         -> TextOf(GetProp(e.val, "message").s)
    [] OTHER -> <<UNEXPECTED>> \o JsonStringify(e.val)

\* A refinement that takes an empty message as well.
Refined_AlsoEmpty(refined, base) ==
  IF refined.t = "str" THEN TextOf(refined.s) ELSE base

\* if (refinedMessageFromSdkJson) finalErrorMessage = ...: an undefined or
\* empty message leaves the base text.
Refined(refined, base) ==
  IF refined.t = "str" /\ refined.s # "" THEN TextOf(refined.s) ELSE base

\* The second part: the message of a JSON object embedded in the base text.
FinalErrorMessage(base) ==
  LET jsonStartIndex == IndexOf(base, "{")
      jsonEndIndex == LastIndexOf(base, "}")
  IN IF jsonStartIndex > -1 /\ jsonEndIndex > jsonStartIndex
     THEN LET parsed == JsonParse(SubSeq(base, jsonStartIndex, jsonEndIndex))
              sdkError == parsed.val
              inner == GetProp(sdkError, "error")
              refined ==
                IF inner.t = "obj" /\ GetProp(inner, "message").t = "str"
                THEN GetProp(inner, "message")
                ELSE IF sdkError.t = "obj" /\ GetProp(sdkError, "message").t = "str"
                     THEN GetProp(sdkError, "message")
                     ELSE JsUndefined
          IN IF parsed.ok THEN Refined(refined, base) ELSE base
     ELSE base

\* The text handed to marked.parse.
ErrorTextOf(e) == <<"Error:">> \o FinalErrorMessage(BaseErrorText(e))

\* The objects considered: an optional error property and an optional
\* message property, each of several types.
InnerVals ==
  {JsString("outer"), JsNumber("429"), JsNull, JsObject(<< >>),
   JsObject(<<[k |-> "message", v |-> JsString("quota exceeded")]>>),
   JsObject(<<[k |-> "message", v |-> JsString("")]>>),
   JsObject(<<[k |-> "message", v |-> JsNumber("429")]>>)}
MessageVals == {JsString("outer"), JsString(""), JsNumber("429")}
Envelopes ==
  {JsObject(<< >>)}
    \cup {JsObject(<<[k |-> "error", v |-> i]>>) : i \in InnerVals}
    \cup {JsObject(<<[k |-> "message", v |-> m]>>) : m \in MessageVals}
    \cup {JsObject(<<[k |-> "error", v |-> i], [k |-> "message", v |-> m]>>) :
            i \in InnerVals, m \in MessageVals}
\* The texts an error message can be: plain, wrapping one JSON object, or
\* with braces that do not delimit a JSON object.
Malformed ==
  {<<"failed">>, <<"{", "failed", "}">>, <<"}", "failed", "{">>,
   <<"{", Quote("message"), ":", Quote("outer")>>,
   <<"{", "}", "and", "{", Quote("message"), ":", Quote("outer"), "}">>}
ErrorTexts ==
  Malformed
    \cup {JsonStringify(v) : v \in Envelopes}
    \cup {<<UNEXPECTED>> \o JsonStringify(v) : v \in Envelopes}
    \cup {<<"got">> \o JsonStringify(v) \o <<"from server">> : v \in Envelopes}
\* The values the inner try can throw.
ErrorValues ==
  {[kind |-> "Error", message |-> m, val |-> JsUndefined] : m \in ErrorTexts}
    \cup {[kind |-> "string", message |-> m, val |-> JsUndefined] : m \in ErrorTexts}
    \cup {[kind |-> "object", message |-> << >>, val |-> v] :
            v \in Envelopes \cup {JsNull}}

ErrInit ==
  /\ thrown \in ErrorValues
  /\ errorText = << >>
  /\ ChatIdle
  /\ CaseIdle
  /\ BucketIdle
  /\ ExtIdle

\* The catch block up to the call of marked.parse.
CatchError ==
  /\ errorText = << >>
  /\ errorText' = ErrorTextOf(thrown)
  /\ UNCHANGED <<thrown, chatVars, caseVars, bucketVars, extVars>>

ErrNext == CatchError
ErrSpec == ErrInit /\ [][ErrNext]_vars

\* ----------------------------------------------------------- bucket list
\* Location names and queries are strings; CharsOf spells them for the
\* character-wise operations (toLowerCase, includes).
CharsOf(name) ==
  CASE name = "Rome" -> <<"R", "o", "m", "e">>
    [] name = "rome" -> <<"r", "o", "m", "e">>
    [] name = "Cairo" -> <<"C", "a", "i", "r", "o">>
    [] name = "ro" -> <<"r", "o">>
    [] name = "ROME" -> <<"R", "O", "M", "E">>
    [] name = "Oslo" -> <<"O", "s", "l", "o">>
\* The locations asked to be added, and the queries of removals.
AddNames == {"Rome", "rome", "Cairo"}
RemoveQueries == {"ro", "ROME", "Oslo"}
\* params.notes: undefined, or a text.
NoNotes == << >>
NotesVals == {NoNotes, <<"see at dawn">>}
\* results[0].geometry.location of a successful geocode.
Locations == {[lat |-> 41, lng |-> 12], [lat |-> 30, lng |-> 31]}
NoLocation == [lat |-> 0, lng |-> 0]

\* a.toLowerCase() === b.toLowerCase()
EqualsIgnoreCase(a, b) == toLowerCase(CharsOf(a)) = toLowerCase(CharsOf(b))
\* String.prototype.includes on characters.
StringIncludes(hay, needle) ==
  \E i \in 0..(Len(hay) - Len(needle)) :
    SubSeq(hay, i + 1, i + Len(needle)) = needle
\* A match that respects the case of the item's name.
NameMatches_Exact(name, locationQuery) ==
  StringIncludes(CharsOf(name), toLowerCase(CharsOf(locationQuery)))
\* item.name.toLowerCase().includes(lowerQuery)
NameMatches(name, locationQuery) ==
  StringIncludes(toLowerCase(CharsOf(name)), toLowerCase(CharsOf(locationQuery)))

Ids(list) == {list[i].id : i \in 1..Len(list)}

\* A serialization that leaves the notes out always.
StringifyList_NoNotes(list) ==
  [i \in 1..Len(list) |->
     [id |-> list[i].id, name |-> list[i].name, lat |-> list[i].lat,
      lng |-> list[i].lng, addedAt |-> list[i].addedAt,
      hasNotes |-> FALSE, notes |-> NoNotes]]

\* JSON.stringify of the list: a property whose value is undefined (notes)
\* is left out.
StringifyList(list) ==
  [i \in 1..Len(list) |->
     [id |-> list[i].id, name |-> list[i].name, lat |-> list[i].lat,
      lng |-> list[i].lng, addedAt |-> list[i].addedAt,
      hasNotes |-> list[i].notes # NoNotes, notes |-> list[i].notes]]
\* JSON.parse of a stored list: a property that is left out reads undefined.
ParseList(items) ==
  [i \in 1..Len(items) |->
     [id |-> items[i].id, name |-> items[i].name, lat |-> items[i].lat,
      lng |-> items[i].lng, addedAt |-> items[i].addedAt,
      notes |-> IF items[i].hasNotes THEN items[i].notes ELSE NoNotes]]

\* A list saved by an earlier session.
StoredItem ==
  [id |-> 100, name |-> "Cairo", lat |-> 30, lng |-> 31, notes |-> NoNotes,
   addedAt |-> 0]
\* What localStorage holds at startup: nothing, a saved list, or a text that
\* is not JSON.
StoredValues ==
  {NoItem, [kind |-> "garbage", items |-> << >>],
   [kind |-> "json", items |-> StringifyList(<< >>)],
   [kind |-> "json", items |-> StringifyList(<<StoredItem>>)]}

\* loadBucketList: the value of bucketList after the constructor.
loadBucketList(stored) ==
  IF stored.kind = "json" THEN ParseList(stored.items) ELSE << >>

\* saveBucketList: setItem succeeds (ok) or throws, which is caught.
saveBucketList(ok) ==
  /\ storage' = IF ok THEN [kind |-> "json", items |-> StringifyList(bucketList)]
                ELSE storage
  /\ lastSave' = IF ok THEN "ok" ELSE "failed"

HasMarker(markers, id) == \E i \in 1..Len(markers) : markers[i].id = id

\* Step 2 of syncBucketMarkers: a marker for every item that has none, in
\* list order.  m holds the entries, the map's children and the count of
\* markers created.
RECURSIVE AddMarkers(_, _)
AddMarkers(m, list) ==
  IF list = << >> THEN m
  ELSE IF HasMarker(m.entries, list[1].id)
       THEN AddMarkers(m, Tail(list))
       ELSE AddMarkers(
              [entries |-> Append(m.entries, [id |-> list[1].id, marker |-> m.n + 1]),
               children |-> m.children \cup {m.n + 1},
               n |-> m.n + 1],
              Tail(list))

\* A step 1 that removes every marker.
KeepsMarker_Never(markers, id) == FALSE
\* Step 1 keeps the marker of an id that is in the list.
KeepsMarker(currentIds, id) == id \in currentIds

\* syncBucketMarkers on the state (list, entries, children, count).
syncBucketMarkers(ready, list, m) ==
  IF ~ready THEN m
  ELSE LET kept == SelectSeq(m.entries, LAMBDA e : KeepsMarker(Ids(list), e.id))
           gone == {m.entries[i].marker : i \in
                      {j \in 1..Len(m.entries) : ~KeepsMarker(Ids(list), m.entries[j].id)}}
       IN AddMarkers([entries |-> kept, children |-> m.children \ gone, n |-> m.n],
                     list)

Markers == [entries |-> bucketMarkers, children |-> mapChildren, n |-> created.markers]
SetMarkers(m) ==
  /\ bucketMarkers' = m.entries
  /\ mapChildren' = m.children
  /\ created' = [created EXCEPT !.markers = m.n]

\* One entry of the event log.
Event(type, query, notes, outcome, loc) ==
  [type |-> type, query |-> query, notes |-> notes, outcome |-> outcome,
   loc |-> loc, removed |-> 0]
CommandTypes == {"add", "remove", "removeItem"}
NCmds == events.cmds
\* The log keeps the two most recent events.
Log(e) ==
  events' = [n |-> events.n + 1,
             cmds |-> events.cmds + (IF e.type \in CommandTypes THEN 1 ELSE 0),
             recent |-> IF events.recent = << >> THEN <<e>>
                        ELSE <<events.recent[Len(events.recent)], e>>]

MapReady == mapLoad = "ready"
NOT_READY == <<"Cannot add to list: Map services not ready.">>

BucketInit ==
  /\ storage \in StoredValues
  /\ bucketList = loadBucketList(storage)
  /\ selectedChatTab = GEMINI
  /\ bucketMarkers = << >> /\ mapChildren = {}
  /\ mapLoad = "loading"
  /\ changed = TRUE
  /\ pending = << >>
  /\ created = [ids |-> 0, markers |-> 0]
  /\ lastSave = "none"
  /\ events = [n |-> 0, cmds |-> 0, recent |-> << >>]
  /\ ChatIdle /\ CaseIdle /\ ErrIdle /\ ExtIdle

\* What the bucket-list handlers leave alone of the chat.
ChatRest == <<chatState, inputMessage, shouldSpeakNextResponse, isExplorationMode,
              nCalls, call, spoken, nRejects, caseVars, errVars,
              extVars>>

\* updated(changedProperties) with 'bucketList' changed: save, then sync.
Updated ==
  /\ changed
  /\ changed' = FALSE
  /\ \E ok \in BOOLEAN : saveBucketList(ok)
  /\ SetMarkers(syncBucketMarkers(MapReady, bucketList, Markers))
  /\ UNCHANGED <<bucketList, selectedChatTab, mapLoad, pending, events,
                 messages, currentLocationName, ChatRest>>

\* loadMap resolves: the map and the geocoder are set, markers are synced.
MapLoaded ==
  /\ mapLoad = "loading"
  /\ mapLoad' = "ready"
  /\ SetMarkers(syncBucketMarkers(TRUE, bucketList, Markers))
  /\ UNCHANGED <<bucketList, selectedChatTab, storage, changed, pending,
                 lastSave, events, messages, currentLocationName, ChatRest>>

\* loadMap fails (no API key, or the loader rejects).
MapLoadFails ==
  /\ mapLoad = "loading"
  /\ mapLoad' = "failed"
  /\ UNCHANGED <<bucketList, selectedChatTab, bucketMarkers, mapChildren,
                 storage, changed, pending, created, lastSave, events,
                 messages, currentLocationName, ChatRest>>

\* The switch after the duplicate check of _handleAddToBucketList.
TabAfterDuplicate_Stay(tab) == tab
TabAfterDuplicate(tab) == BUCKET_LIST

\* _handleAddToBucketList(locationQuery, notes) up to the geocode request.
\* The await of marked.parse in the not-ready branch is taken with the
\* step: the error element is written by this handler only.
\* _handleViewLocation, called for a duplicate, requests a geocode of its own.
_handleAddToBucketList(locationQuery, notes) ==
  /\ NCmds < MaxCmds
  /\ IF ~MapReady
     THEN /\ messages' = Append(messages, NewMessage("error", MarkedParse(NOT_READY), 0))
          /\ Log(Event("add", locationQuery, notes, "notready", NoLocation))
          /\ UNCHANGED <<selectedChatTab, pending>>
     ELSE IF \E i \in 1..Len(bucketList) :
               EqualsIgnoreCase(bucketList[i].name, locationQuery)
     THEN /\ pending' = Append(pending, [kind |-> "view", query |-> locationQuery,
                                         notes |-> NoNotes])
          /\ selectedChatTab' = TabAfterDuplicate(selectedChatTab)
          /\ Log(Event("add", locationQuery, notes, "duplicate", NoLocation))
          /\ UNCHANGED messages
     ELSE /\ pending' = Append(pending, [kind |-> "add", query |-> locationQuery,
                                         notes |-> notes])
          /\ Log(Event("add", locationQuery, notes, "geocoding", NoLocation))
          /\ UNCHANGED <<messages, selectedChatTab>>
  /\ UNCHANGED <<bucketList, bucketMarkers, mapChildren, storage, mapLoad,
                 changed, created, lastSave, currentLocationName, ChatRest>>

\* handleMapQuery({command: 'ADD_BUCKET', location, notes}).
AddBucket ==
  \E location \in AddNames, notes \in NotesVals :
    _handleAddToBucketList(location, notes)

\* The Add button of the location card.
CardAdd ==
  /\ currentLocationName # NoName
  /\ _handleAddToBucketList(currentLocationName, NoNotes)

Without(seq, i) == SubSeq(seq, 1, i - 1) \o SubSeq(seq, i + 1, Len(seq))

\* The item built by the geocode callback.
NewItem_NoNotes(id, name, loc, notes, now) ==
  [id |-> id, name |-> name, lat |-> loc.lat, lng |-> loc.lng,
   notes |-> NoNotes, addedAt |-> now]
NewItem(id, name, loc, notes, now) ==
  [id |-> id, name |-> name, lat |-> loc.lat, lng |-> loc.lng,
   notes |-> notes, addedAt |-> now]

\* The geocode callback of _handleAddToBucketList.
GeocodeAddDone(i, ok, loc) ==
  /\ pending[i].kind = "add"
  /\ pending' = Without(pending, i)
  /\ IF ok
     THEN /\ bucketList' = Append(bucketList,
               NewItem(created.ids + 1, pending[i].query, loc, pending[i].notes,
                       events.n))
          /\ created' = [created EXCEPT !.ids = @ + 1]
          /\ selectedChatTab' = BUCKET_LIST
          /\ currentLocationName' = pending[i].query
          /\ changed' = TRUE
          /\ Log(Event("geocodeAdd", pending[i].query, pending[i].notes, "OK", loc))
     ELSE /\ Log(Event("geocodeAdd", pending[i].query, pending[i].notes, "FAILED",
                       NoLocation))
          /\ UNCHANGED <<bucketList, created, selectedChatTab,
                         currentLocationName, changed>>
  /\ UNCHANGED <<bucketMarkers, mapChildren, storage, mapLoad, lastSave,
                 messages, ChatRest>>

\* The geocode callback of _handleViewLocation.
GeocodeViewDone(i, ok, loc) ==
  /\ pending[i].kind = "view"
  /\ pending' = Without(pending, i)
  /\ currentLocationName' = IF ok THEN pending[i].query ELSE currentLocationName
  /\ Log(Event("geocodeView", pending[i].query, NoNotes,
               IF ok THEN "OK" ELSE "FAILED", IF ok THEN loc ELSE NoLocation))
  /\ UNCHANGED <<bucketList, selectedChatTab, bucketMarkers, mapChildren,
                 storage, mapLoad, changed, created, lastSave, messages, ChatRest>>

\* this.bucketList.length < initialLen
Shrunk_OrSame(len, initialLen) == len <= initialLen
Shrunk(len, initialLen) == len < initialLen

\* _handleRemoveFromBucketList(locationQuery).
_handleRemoveFromBucketList(locationQuery) ==
  LET kept == SelectSeq(bucketList,
                        LAMBDA item : ~NameMatches(item.name, locationQuery))
  IN /\ NCmds < MaxCmds
     /\ bucketList' = kept
     /\ changed' = TRUE
     /\ selectedChatTab' = IF Shrunk(Len(kept), Len(bucketList))
                           THEN BUCKET_LIST ELSE selectedChatTab
     /\ Log([Event("remove", locationQuery, NoNotes,
                    IF Len(kept) < Len(bucketList) THEN "removed" ELSE "nomatch",
                    NoLocation)
               EXCEPT !.removed = Len(bucketList) - Len(kept)])
     /\ UNCHANGED <<bucketMarkers, mapChildren, storage, mapLoad, pending,
                    created, lastSave, messages, currentLocationName, ChatRest>>

\* handleMapQuery({command: 'REMOVE_BUCKET', location}).
RemoveBucket == \E location \in RemoveQueries : _handleRemoveFromBucketList(location)

\* removeBucketItem(id): the Remove button of a list entry.
removeBucketItem ==
  \E i \in 1..Len(bucketList) :
    /\ NCmds < MaxCmds
    /\ bucketList' = SelectSeq(bucketList, LAMBDA item : item.id # bucketList[i].id)
    /\ changed' = TRUE
    /\ Log(Event("removeItem", bucketList[i].name, NoNotes, "removed", NoLocation))
    /\ UNCHANGED <<selectedChatTab, bucketMarkers, mapChildren, storage, mapLoad,
                   pending, created, lastSave, messages, currentLocationName,
                   ChatRest>>

\* A click on one of the two tabs.
SelectTab ==
  \E tab \in ChatTab :
    /\ tab # selectedChatTab
    /\ selectedChatTab' = tab
    /\ UNCHANGED <<bucketList, bucketMarkers, mapChildren, storage, mapLoad,
                   changed, pending, created, lastSave, events, messages,
                   currentLocationName, ChatRest>>

BucketNext ==
  \/ Updated
  \/ MapLoaded
  \/ MapLoadFails
  \/ AddBucket
  \/ CardAdd
  \/ \E i \in 1..Len(pending), ok \in BOOLEAN, loc \in Locations :
       GeocodeAddDone(i, ok, loc)
  \/ \E i \in 1..Len(pending), ok \in BOOLEAN, loc \in Locations :
       GeocodeViewDone(i, ok, loc)
  \/ RemoveBucket
  \/ removeBucketItem
  \/ SelectTab

BucketSpec == BucketInit /\ [][BucketNext]_vars

\* ------------------------------------------------ the list read at startup
\* Number of operations on the loaded list in one behaviour.
MaxLoadOps == 2
\* Length of the stored arrays.
MaxStoredLen == 2

\* An element of a stored array: a BucketItem record ...
ItemElem(id, name) == [t |-> "item", id |-> id, name |-> name]
\* ... or a value that is none: null, a number, an object without a name.
OtherElem(t) == [t |-> t, id |-> 0, name |-> ""]
StoredElems ==
  {ItemElem(100, "Cairo"), ItemElem(101, "Rome"), OtherElem("null"),
   OtherElem("number"), OtherElem("object")}
StoredArrays ==
  {JsValue("array", e) :
     e \in UNION {[1..n -> StoredElems] : n \in 0..MaxStoredLen}}
\* What JSON.parse returns for the JSON texts: an array, null, a number, an
\* object, the empty string and a string (items are its characters).
ParsedValues ==
  StoredArrays \cup {JsValue(t, << >>) : t \in {"null", "number", "object", "string"}}
               \cup {JsValue("string", <<"x">>)}
\* localStorage at startup: no entry ("null"), getItem throws ("throws"), the
\* empty text, a text that is not JSON ("garbage"), or a JSON text, given by
\* the value it parses to.
RawValues ==
  {[kind |-> k, value |-> EmptyArray] : k \in {"null", "throws", "empty", "garbage"}}
    \cup {[kind |-> "json", value |-> v] : v \in ParsedValues}

\* loadBucketList on any stored value: bucketList keeps its initializer []
\* unless a non-empty text was read and JSON.parse returned.
LoadedValue(raw) == IF raw.kind = "json" THEN raw.value ELSE EmptyArray

\* item.name.toLowerCase() throws: item is null, or item.name is undefined.
NameThrows(e) == e.t # "item"
\* render: bucketList.length (label), then length === 0 ? ... : bucketList.map
\* over item.name.
RenderThrows(v) ==
  IF v.t = "array" THEN \E i \in 1..Len(v.items) : v.items[i].t = "null"
  ELSE ~(v.t = "string" /\ v.items = << >>)
\* bucketList.some(item => item.name.toLowerCase() === ...): some stops at
\* the first match.
SomeThrows(v, q) ==
  \/ v.t # "array"
  \/ \E i \in 1..Len(v.items) :
       /\ NameThrows(v.items[i])
       /\ \A j \in 1..(i - 1) :
            ~(v.items[j].t = "item" /\ EqualsIgnoreCase(v.items[j].name, q))
\* bucketList.length, then bucketList.filter over item.name.toLowerCase().
FilterNameThrows(v) ==
  \/ v.t # "array"
  \/ \E i \in 1..Len(v.items) : NameThrows(v.items[i])
\* bucketList.filter(item => item.id !== id), bucketList.map(i => i.id).
FilterIdThrows(v) ==
  \/ v.t # "array"
  \/ \E i \in 1..Len(v.items) : v.items[i].t = "null"

RECURSIVE FilterElems(_, _, _)
\* Array.prototype.filter with the test Keep(element, arg).
FilterElems(items, Keep(_, _), arg) ==
  IF items = << >> THEN << >>
  ELSE (IF Keep(Head(items), arg) THEN <<Head(items)>> ELSE << >>)
         \o FilterElems(Tail(items), Keep, arg)
KeepByName(e, q) == ~NameMatches(e.name, q)
KeepById(e, id) == e.id # id

LoadInit ==
  /\ rawStored \in RawValues
  /\ listValue = LoadedValue(rawStored)
  /\ uncaught = "none"
  /\ loadOps = 0
  /\ ChatIdle /\ CaseIdle /\ ErrIdle /\ BucketIdle /\ ToolIdle /\ ViewIdle
  /\ ExploreIdle /\ LateIdle

\* What the operations on the loaded list leave alone.
LoadRest == <<rawStored, chatVars, caseVars, errVars, bucketVars, toolVars,
              viewVars, exploreVars, lateVars>>

\* One operation on the loaded list: it throws a TypeError that nothing
\* catches, or it returns and leaves the list at next.
LoadStep(throws, next) ==
  /\ loadOps' = loadOps + 1
  /\ uncaught' = IF throws THEN "TypeError" ELSE uncaught
  /\ listValue' = IF throws THEN listValue ELSE next
  /\ UNCHANGED LoadRest

\* render() of the tab label and the bucket-list tab.
LoadedRender ==
  /\ loadOps < MaxLoadOps
  /\ LoadStep(RenderThrows(listValue), listValue)
\* _handleAddToBucketList up to the geocode request.
LoadedAdd ==
  /\ loadOps < MaxLoadOps
  /\ \E q \in AddNames, ready \in BOOLEAN :
       LoadStep(ready /\ SomeThrows(listValue, q), listValue)
\* _handleRemoveFromBucketList.
LoadedRemove ==
  /\ loadOps < MaxLoadOps
  /\ \E q \in RemoveQueries :
       LoadStep(FilterNameThrows(listValue),
                JsValue("array", FilterElems(listValue.items, KeepByName, q)))
\* removeBucketItem.
LoadedRemoveItem ==
  /\ loadOps < MaxLoadOps
  /\ \E id \in {100, 101} :
       LoadStep(FilterIdThrows(listValue),
                JsValue("array", FilterElems(listValue.items, KeepById, id)))
\* updated() with 'bucketList' changed: saveBucketList catches what it throws,
\* syncBucketMarkers maps the list to ids once the map is there.
LoadedUpdated ==
  /\ loadOps < MaxLoadOps
  /\ \E ready \in BOOLEAN : LoadStep(ready /\ FilterIdThrows(listValue), listValue)

LoadNext ==
  \/ LoadedRender
  \/ LoadedAdd
  \/ LoadedRemove
  \/ LoadedRemoveItem
  \/ LoadedUpdated
LoadSpec == LoadInit /\ [][LoadNext]_vars

\* ----------------------------------------------------------- the six tools
\* Number of tool invocations in one behaviour.
MaxToolCalls == 2

\* A property that is not there.
UNDEFINED == "<undefined>"
\* MapParams.
MapParams(command, location, origin, destination, notes) ==
  [command |-> command, location |-> location, origin |-> origin,
   destination |-> destination, notes |-> notes]
\* The arguments of an invocation, as validated against the tool's schema:
\* z.string() admits the empty string, z.string().optional() also undefined.
ToolStrings == {"", "Rome", "Cairo"}
ToolArgs(query, location, origin, destination, notes) ==
  [query |-> query, location |-> location, origin |-> origin,
   destination |-> destination, notes |-> notes]

\* The tool callbacks: the MapParams handed to mapQueryHandler, in order,
\* and the text of the content returned.
view_location_google_maps_Twice(a) ==
  [forward |-> <<MapParams("VIEW", a.query, UNDEFINED, UNDEFINED, UNDEFINED),
                 MapParams("VIEW", a.query, UNDEFINED, UNDEFINED, UNDEFINED)>>,
   text |-> <<"Navigating to: ", a.query>>]
view_location_google_maps(a) ==
  [forward |-> <<MapParams("VIEW", a.query, UNDEFINED, UNDEFINED, UNDEFINED)>>,
   text |-> <<"Navigating to: ", a.query>>]
directions_on_google_maps(a) ==
  [forward |-> <<MapParams("DIRECTIONS", UNDEFINED, a.origin, a.destination,
                           UNDEFINED)>>,
   text |-> <<"Navigating from ", a.origin, " to ", a.destination>>]
add_to_bucket_list(a) ==
  [forward |-> <<MapParams("ADD_BUCKET", a.location, UNDEFINED, UNDEFINED,
                           a.notes)>>,
   text |-> <<"Added ", a.location, " to bucket list.">>]
remove_from_bucket_list(a) ==
  [forward |-> <<MapParams("REMOVE_BUCKET", a.location, UNDEFINED, UNDEFINED,
                           UNDEFINED)>>,
   text |-> <<"Removed ", a.location, " from bucket list.">>]
enter_exploration_mode(a) ==
  [forward |-> <<MapParams("EXPLORE", UNDEFINED, UNDEFINED, UNDEFINED,
                           UNDEFINED)>>,
   text |-> <<"Entering virtual exploration mode.">>]
start_orbit(a) ==
  [forward |-> <<MapParams("ORBIT", UNDEFINED, UNDEFINED, UNDEFINED, UNDEFINED)>>,
   text |-> <<"Starting 360 degree orbit.">>]

\* if (x): undefined and the empty string are falsy.
Truthy(x) == x # UNDEFINED /\ x # ""
\* handleMapQuery's switch: the case taken and whether its guard on the
\* arguments lets the operation run.  The operations themselves are what the
\* bucket-list and exploration sections model.
Dispatch(params) ==
  [params |-> params,
   runs |-> CASE params.command \in {"VIEW", "ADD_BUCKET", "REMOVE_BUCKET"} ->
                   Truthy(params.location)
              [] params.command = "DIRECTIONS" ->
                   Truthy(params.origin) /\ Truthy(params.destination)
              [] OTHER -> TRUE]

NoArgs == ToolArgs(UNDEFINED, UNDEFINED, UNDEFINED, UNDEFINED, UNDEFINED)

ToolInit ==
  /\ invoked = << >>
  /\ routed = << >>
  /\ ChatIdle /\ CaseIdle /\ ErrIdle /\ BucketIdle /\ LoadIdle /\ ViewIdle
  /\ ExploreIdle /\ LateIdle

\* The server runs a tool's callback: mapQueryHandler calls
\* mapApp.handleMapQuery for each MapParams forwarded; the content goes back
\* to the caller.
Invoke(tool, a, r) ==
  /\ invoked' = Append(invoked, [tool |-> tool, args |-> a, text |-> r.text])
  /\ routed' = routed \o [i \in 1..Len(r.forward) |-> Dispatch(r.forward[i])]
  /\ UNCHANGED <<chatVars, caseVars, errVars, bucketVars, loadVars, viewVars,
                 exploreVars, lateVars>>

ViewLocationTool ==
  /\ Len(invoked) < MaxToolCalls
  /\ \E q \in ToolStrings :
       LET a == [NoArgs EXCEPT !.query = q]
       IN Invoke("view_location_google_maps", a, view_location_google_maps(a))
DirectionsTool ==
  /\ Len(invoked) < MaxToolCalls
  /\ \E o, d \in ToolStrings :
       LET a == [NoArgs EXCEPT !.origin = o, !.destination = d]
       IN Invoke("directions_on_google_maps", a, directions_on_google_maps(a))
AddToBucketListTool ==
  /\ Len(invoked) < MaxToolCalls
  /\ \E l \in ToolStrings, n \in {UNDEFINED, "see at dawn"} :
       LET a == [NoArgs EXCEPT !.location = l, !.notes = n]
       IN Invoke("add_to_bucket_list", a, add_to_bucket_list(a))
RemoveFromBucketListTool ==
  /\ Len(invoked) < MaxToolCalls
  /\ \E l \in ToolStrings :
       LET a == [NoArgs EXCEPT !.location = l]
       IN Invoke("remove_from_bucket_list", a, remove_from_bucket_list(a))
EnterExplorationModeTool ==
  /\ Len(invoked) < MaxToolCalls
  /\ Invoke("enter_exploration_mode", NoArgs, enter_exploration_mode(NoArgs))
StartOrbitTool ==
  /\ Len(invoked) < MaxToolCalls
  /\ Invoke("start_orbit", NoArgs, start_orbit(NoArgs))

ToolNext ==
  \/ ViewLocationTool
  \/ DirectionsTool
  \/ AddToBucketListTool
  \/ RemoveFromBucketListTool
  \/ EnterExplorationModeTool
  \/ StartOrbitTool
ToolSpec == ToolInit /\ [][ToolNext]_vars

\* ------------------------------------------------- view and directions
\* Number of VIEW and DIRECTIONS commands in one behaviour.
MaxViewCmds == 3

ViewQueries == {"Rome", "Oslo"}
\* route.overview_path of a route found.
RoutePaths == {<<[lat |-> 41, lng |-> 12], [lat |-> 30, lng |-> 31]>>}

\* The map state a command may change, with the count of messages.
MapState ==
  [searchMarker |-> searchMarker, routeElems |-> routeElems,
   routePath |-> routePath, currentLocation |-> currentLocation,
   currentLocationName |-> currentLocationName, showPano |-> showPano,
   messages |-> Len(messages)]

\* A request handed to the geocoder, the directions service or the street
\* view service: its callback runs later.  before and at record the map
\* state when the command was dispatched and the step that dispatched it.
Request(kind, query, before) ==
  [kind |-> kind, query |-> query, before |-> before, at |-> viewSteps.n + 1]

\* _clearTemporaryMapElements: every element that is set is removed from the
\* map and forgotten; the route path is emptied.
_clearTemporaryMapElements ==
  /\ tempChildren' = tempChildren \ {searchMarker, routeElems.polyline,
                                     routeElems.origin, routeElems.destination}
  /\ searchMarker' = 0
  /\ routeElems' = NoRoute
  /\ routePath' = << >>

\* What is left of viewVars by a command that returns at its guard.
ViewGuardReturns ==
  UNCHANGED <<searchMarker, routeElems, routePath, tempChildren, viewPending>>

\* _handleViewLocation(locationQuery) up to the geocode request.
_handleViewLocation(locationQuery) ==
  IF ~mapInitialized THEN ViewGuardReturns
  ELSE /\ _clearTemporaryMapElements
       /\ viewPending' = Append(viewPending,
                                Request("geocode", locationQuery, MapState))

\* _handleDirections(origin, destination) up to the route request.
_handleDirections(originQuery, destinationQuery) ==
  IF ~mapInitialized THEN ViewGuardReturns
  ELSE /\ _clearTemporaryMapElements
       /\ viewPending' = Append(viewPending,
                                Request("route", destinationQuery, MapState))

\* What the view section leaves alone of the rest.
ViewRest == <<chatState, inputMessage, messages, shouldSpeakNextResponse,
              isExplorationMode, nCalls, call, spoken, nRejects, caseVars,
              errVars, bucketVars, loadVars, toolVars, exploreVars, lateVars>>

ViewInit ==
  /\ ViewIdle
  /\ ChatIdle /\ CaseIdle /\ ErrIdle /\ BucketIdle /\ LoadIdle /\ ToolIdle
  /\ ExploreIdle /\ LateIdle

\* loadMap resolves and initializeMap has run.
ViewMapLoaded ==
  /\ ~mapInitialized
  /\ mapInitialized' = TRUE
  /\ UNCHANGED <<searchMarker, routeElems, routePath, tempChildren,
                 currentLocation, showPano, viewPending, viewSteps, viewLast,
                 made, avatarPose, panorama, currentLocationName, ViewRest>>

\* handleMapQuery({command: 'VIEW', location}).
ViewCommand ==
  /\ viewSteps.cmds < MaxViewCmds
  /\ \E q \in ViewQueries : _handleViewLocation(q)
  /\ viewSteps' = [n |-> viewSteps.n + 1, cmds |-> viewSteps.cmds + 1]
  /\ UNCHANGED <<mapInitialized, currentLocation, showPano, viewLast, made,
                 avatarPose, panorama, currentLocationName, ViewRest>>

\* handleMapQuery({command: 'DIRECTIONS', origin, destination}).
DirectionsCommand ==
  /\ viewSteps.cmds < MaxViewCmds
  /\ \E d \in ViewQueries : _handleDirections("Cairo", d)
  /\ viewSteps' = [n |-> viewSteps.n + 1, cmds |-> viewSteps.cmds + 1]
  /\ UNCHANGED <<mapInitialized, currentLocation, showPano, viewLast, made,
                 avatarPose, panorama, currentLocationName, ViewRest>>

\* A callback runs: its request leaves the requests in flight.
CallbackRuns(i, ok) ==
  /\ viewSteps' = [viewSteps EXCEPT !.n = @ + 1]
  /\ viewLast' = [kind |-> viewPending[i].kind, ok |-> ok,
                  at |-> viewPending[i].at, before |-> viewPending[i].before]
  /\ UNCHANGED <<mapInitialized, ViewRest>>

\* The geocode callback of _handleViewLocation: on OK the camera flies, a
\* panorama is searched, the location is set and a new search marker is
\* attached.
ViewGeocodeDone ==
  \E i \in 1..Len(viewPending), ok \in BOOLEAN, loc \in Locations :
    /\ viewPending[i].kind = "geocode"
    /\ CallbackRuns(i, ok)
    /\ IF ok
       THEN /\ viewPending' = Append(Without(viewPending, i),
                                     Request("pano", viewPending[i].query,
                                             viewPending[i].before))
            /\ currentLocation' = loc
            /\ currentLocationName' = viewPending[i].query
            /\ made' = made + 1
            /\ searchMarker' = made + 1
            /\ tempChildren' = tempChildren \cup {made + 1}
            /\ avatarPose' = [avatarPose EXCEPT !.lat = loc.lat, !.lng = loc.lng]
            /\ UNCHANGED <<routeElems, routePath, showPano, panorama>>
       ELSE /\ viewPending' = Without(viewPending, i)
            /\ UNCHANGED <<searchMarker, routeElems, routePath, tempChildren,
                           currentLocation, showPano, made, currentLocationName,
                           avatarPose, panorama>>

\* The callback of directionsService.route: on OK the path is stored, the
\* polyline and the two markers are attached, the camera flies to the
\* route's bounds.
RouteDone ==
  \E i \in 1..Len(viewPending), ok \in BOOLEAN, path \in RoutePaths :
    /\ viewPending[i].kind = "route"
    /\ CallbackRuns(i, ok)
    /\ viewPending' = Without(viewPending, i)
    /\ IF ok
       THEN /\ routePath' = path
            /\ made' = made + 3
            /\ routeElems' = [polyline |-> made + 1, origin |-> made + 2,
                              destination |-> made + 3]
            /\ tempChildren' = tempChildren \cup {made + 1, made + 2, made + 3}
            /\ currentLocation' = path[1]
            /\ currentLocationName' = "Route to " \o viewPending[i].query
            /\ UNCHANGED <<searchMarker, showPano, avatarPose, panorama>>
       ELSE UNCHANGED <<searchMarker, routeElems, routePath, tempChildren,
                        currentLocation, showPano, made, currentLocationName,
                        avatarPose, panorama>>

\* The callback of streetViewService.getPanorama.  On OK the panorama is
\* shown and, in a timeout of 0 ms that is folded into this step, the
\* panorama object is created.
PanoDone ==
  \E i \in 1..Len(viewPending), ok \in BOOLEAN :
    /\ viewPending[i].kind = "pano"
    /\ CallbackRuns(i, ok)
    /\ viewPending' = Without(viewPending, i)
    /\ showPano' = ok
    /\ panorama' = (ok \/ panorama)
    /\ UNCHANGED <<searchMarker, routeElems, routePath, tempChildren,
                   currentLocation, made, currentLocationName, avatarPose>>

ViewNext ==
  \/ ViewMapLoaded
  \/ ViewCommand
  \/ DirectionsCommand
  \/ ViewGeocodeDone
  \/ RouteDone
  \/ PanoDone
ViewSpec == ViewInit /\ [][ViewNext]_vars

\* ------------------------------------------------- exploration and orbit
\* Number of exploration commands and clicks in one behaviour.
MaxExploreCmds == 4
\* map.heading and avatarHeading are counted in steps, modulo HeadingSteps.
HeadingSteps == 2

\* The fields the exploration handlers and updated() read and write.
Session ==
  [isExplorationMode |-> isExplorationMode, isAvatarMode |-> isAvatarMode,
   isOrbiting |-> isOrbiting, isSimulating |-> isSimulating,
   animationFrameId |-> animationFrameId, orbitFrameId |-> orbitFrameId,
   avatarPose |-> avatarPose, messages |-> messages]

SetSession(x) ==
  /\ isExplorationMode' = x.isExplorationMode
  /\ isAvatarMode' = x.isAvatarMode
  /\ isOrbiting' = x.isOrbiting
  /\ isSimulating' = x.isSimulating
  /\ animationFrameId' = x.animationFrameId
  /\ orbitFrameId' = x.orbitFrameId
  /\ avatarPose' = x.avatarPose
  /\ messages' = x.messages

\* Each start cancels the frame requested before and requests one.
startAvatarGameLoop(x) == [x EXCEPT !.animationFrameId = TRUE]
stopAvatarGameLoop(x) == [x EXCEPT !.animationFrameId = FALSE]
startOrbitLoop(x) == [x EXCEPT !.orbitFrameId = TRUE]
stopOrbitLoop(x) == [x EXCEPT !.orbitFrameId = FALSE]

\* updated(): isAvatarMode changed to true.
EnterAvatar_KeepOrbit(x) == startAvatarGameLoop(x)
EnterAvatar(x) == startAvatarGameLoop(stopOrbitLoop(x))
\* updated(): isAvatarMode changed to false.
LeaveAvatar_NoResume(x) == stopAvatarGameLoop(x)
LeaveAvatar(x) ==
  LET y == stopAvatarGameLoop(x)
  IN IF y.isOrbiting THEN startOrbitLoop(y) ELSE y

\* updated(changedProperties) for the properties a handler changed from old
\* to x.  It runs in the microtask after the handler, before any other
\* event, timer or frame, and so is part of the handler's step.
updated(old, x) ==
  LET x1 == IF old.isAvatarMode # x.isAvatarMode
            THEN (IF x.isAvatarMode THEN EnterAvatar(x) ELSE LeaveAvatar(x))
            ELSE x
  IN IF old.isOrbiting # x1.isOrbiting /\ ~x1.isAvatarMode
     THEN (IF x1.isOrbiting THEN startOrbitLoop(x1) ELSE stopOrbitLoop(x1))
     ELSE x1

toggleOrbit(x) ==
  LET y == [x EXCEPT !.isOrbiting = ~@]
  IN IF y.isOrbiting
     THEN LET z == [y EXCEPT !.isSimulating = FALSE]
          IN IF ~z.isAvatarMode THEN startOrbitLoop(z) ELSE z
     ELSE IF ~y.isAvatarMode THEN stopOrbitLoop(y) ELSE y

toggleAvatarMode(x) == [x EXCEPT !.isAvatarMode = ~@]

SELECT_FIRST == <<"Please select a location to explore first.">>

\* toggleExplorationMode.  The narration it schedules on entering is the
\* chat section's triggerNarration.
toggleExplorationMode(x) ==
  IF ~showPano /\ ~x.isExplorationMode /\ currentLocation = NoLocation
  THEN [x EXCEPT !.messages = Append(@, NewMessage("assistant", SELECT_FIRST, 0))]
  ELSE LET y == [x EXCEPT !.isExplorationMode = ~@]
       IN IF y.isExplorationMode
          THEN [y EXCEPT !.isAvatarMode = FALSE,
                         !.avatarPose =
                            IF currentLocation # NoLocation
                            THEN [@ EXCEPT !.lat = currentLocation.lat,
                                           !.lng = currentLocation.lng]
                            ELSE @]
          ELSE [y EXCEPT !.isAvatarMode = FALSE, !.isOrbiting = FALSE]

\* if (!this.isOrbiting) of the ORBIT case.
OrbitWanted_Always(x) == TRUE
OrbitWanted(x) == ~x.isOrbiting

TIMES_SQUARE == "Times Square, New York"

\* The map and the session an exploration starts from: nothing viewed yet,
\* a location viewed without or with a panorama, or a route shown.
ExploreStarts ==
  {[currentLocation |-> NoLocation, currentLocationName |-> NoName,
    showPano |-> FALSE, searchMarker |-> 0, routeElems |-> NoRoute,
    routePath |-> << >>, tempChildren |-> {}, made |-> 0],
   [currentLocation |-> [lat |-> 41, lng |-> 12], currentLocationName |-> "Rome",
    showPano |-> FALSE, searchMarker |-> 1, routeElems |-> NoRoute,
    routePath |-> << >>, tempChildren |-> {1}, made |-> 1],
   [currentLocation |-> [lat |-> 41, lng |-> 12], currentLocationName |-> "Rome",
    showPano |-> TRUE, searchMarker |-> 1, routeElems |-> NoRoute,
    routePath |-> << >>, tempChildren |-> {1}, made |-> 1],
   [currentLocation |-> [lat |-> 41, lng |-> 12],
    currentLocationName |-> "Route to Rome",
    showPano |-> FALSE, searchMarker |-> 0,
    routeElems |-> [polyline |-> 1, origin |-> 2, destination |-> 3],
    routePath |-> <<[lat |-> 41, lng |-> 12], [lat |-> 30, lng |-> 31]>>,
    tempChildren |-> {1, 2, 3}, made |-> 3]}

ExploreInit ==
  /\ \E start \in ExploreStarts :
       /\ currentLocation = start.currentLocation
       /\ currentLocationName = start.currentLocationName
       /\ showPano = start.showPano /\ panorama = start.showPano
       /\ searchMarker = start.searchMarker /\ routeElems = start.routeElems
       /\ routePath = start.routePath /\ tempChildren = start.tempChildren
       /\ made = start.made
       /\ avatarPose = [lat |-> IF start.searchMarker # 0 THEN 41 ELSE 0,
                        lng |-> IF start.searchMarker # 0 THEN 12 ELSE 0,
                        heading |-> 0]
  /\ mapInitialized = TRUE
  /\ viewPending = << >> /\ viewSteps = [n |-> 0, cmds |-> 0]
  /\ viewLast = NoCallback
  /\ ExploreIdle
  /\ chatState = IDLE /\ inputMessage = << >> /\ messages = << >>
  /\ shouldSpeakNextResponse = FALSE /\ isExplorationMode = FALSE /\ nCalls = 0
  /\ call = [c \in Calls |-> NoCall] /\ spoken = << >> /\ nRejects = 0
  /\ CaseIdle /\ ErrIdle /\ BucketIdle /\ LoadIdle /\ ToolIdle /\ LateIdle

\* What the exploration handlers leave alone.
ExploreRest == <<chatState, inputMessage, shouldSpeakNextResponse, nCalls, call,
                 spoken, nRejects, caseVars, errVars, bucketVars, loadVars,
                 toolVars, lateVars>>
\* The view state a handler that does not ask for a location leaves alone.
ViewKept == <<mapInitialized, searchMarker, routeElems, routePath, tempChildren,
              currentLocation, showPano, viewPending, viewSteps, viewLast, made,
              panorama, currentLocationName>>

\* A command or click: it is counted and noted.
Noted(event) ==
  /\ exploreCmds < MaxExploreCmds
  /\ exploreCmds' = exploreCmds + 1
  /\ exploreLast' = event

\* handleMapQuery({command: 'EXPLORE'}).
ExploreCommand ==
  /\ Noted("EXPLORE")
  /\ IF ~showPano
     THEN /\ timers' = timers + 1
          /\ SetSession(Session)
          /\ viewSteps' = [viewSteps EXCEPT !.n = @ + 1]
          /\ IF currentLocation # NoLocation
             THEN /\ viewPending' =
                       Append(viewPending,
                              Request("pano", currentLocationName, MapState))
                  /\ UNCHANGED <<searchMarker, routeElems, routePath,
                                 tempChildren>>
             ELSE _handleViewLocation(TIMES_SQUARE)
     ELSE /\ SetSession(updated(Session,
                                IF ~isExplorationMode
                                THEN toggleExplorationMode(Session)
                                ELSE Session))
          /\ UNCHANGED <<timers, viewSteps, viewPending, searchMarker,
                         routeElems, routePath, tempChildren>>
  /\ UNCHANGED <<mapInitialized, currentLocation, showPano, viewLast, made,
                 panorama, currentLocationName, mapHeading, flyovers,
                 ExploreRest>>

\* A timeout set by the EXPLORE case fires.
ExploreTimerFires ==
  /\ timers > 0
  /\ timers' = timers - 1
  /\ exploreLast' = "exploreTimer"
  /\ SetSession(updated(Session, toggleExplorationMode(Session)))
  /\ UNCHANGED <<exploreCmds, mapHeading, flyovers, ViewKept, ExploreRest>>

\* handleMapQuery({command: 'ORBIT'}).
OrbitCommand ==
  /\ Noted("ORBIT")
  /\ SetSession(updated(Session,
                        IF OrbitWanted(Session) THEN toggleOrbit(Session)
                        ELSE Session))
  /\ UNCHANGED <<timers, mapHeading, flyovers, ViewKept, ExploreRest>>

\* The orbit button, or a voice command with 'spin', 'orbit' or '360'.
ToggleOrbitClick ==
  /\ Noted("toggleOrbit")
  /\ SetSession(updated(Session, toggleOrbit(Session)))
  /\ UNCHANGED <<timers, mapHeading, flyovers, ViewKept, ExploreRest>>

\* The view switch shown in exploration mode.
ToggleAvatarClick ==
  /\ isExplorationMode
  /\ Noted("toggleAvatarMode")
  /\ SetSession(updated(Session, toggleAvatarMode(Session)))
  /\ UNCHANGED <<timers, mapHeading, flyovers, ViewKept, ExploreRest>>

\* The Start Walking button of the panorama card, the exit button of
\* exploration mode.
ToggleExplorationClick ==
  /\ isExplorationMode \/ showPano
  /\ Noted("toggleExplorationMode")
  /\ SetSession(updated(Session, toggleExplorationMode(Session)))
  /\ UNCHANGED <<timers, mapHeading, flyovers, ViewKept, ExploreRest>>

\* startFlyover up to its first await: orbit is stopped, playback begins.
StartFlyoverClick ==
  /\ routePath # << >> /\ ~isSimulating /\ ~isExplorationMode
  /\ Noted("startFlyover")
  /\ flyovers' = flyovers + 1
  /\ SetSession(updated(Session,
       [(IF isOrbiting
         THEN stopOrbitLoop([Session EXCEPT !.isOrbiting = FALSE])
         ELSE Session) EXCEPT !.isSimulating = TRUE]))
  /\ UNCHANGED <<timers, mapHeading, ViewKept, ExploreRest>>

\* startFlyover leaves its loop (the path is done, or isSimulating was
\* cleared) and returns.
FlyoverEnds ==
  /\ flyovers > 0
  /\ flyovers' = flyovers - 1
  /\ exploreLast' = "flyoverEnds"
  /\ SetSession([Session EXCEPT !.isSimulating = FALSE])
  /\ UNCHANGED <<exploreCmds, timers, mapHeading, ViewKept, ExploreRest>>

\* A frame of the standalone orbit loop: the heading advances and the next
\* frame is requested.
OrbitFrame ==
  /\ orbitFrameId
  /\ mapHeading' = (mapHeading + 1) % HeadingSteps
  /\ exploreLast' = "orbitFrame"
  /\ SetSession(Session)
  /\ UNCHANGED <<exploreCmds, timers, flyovers, ViewKept, ExploreRest>>

\* A frame of the avatar loop: updateAvatarState turns the avatar while an
\* arrow key is down (turn) and moves the camera heading, by orbit or after
\* the avatar.
AvatarFrame ==
  /\ animationFrameId
  /\ exploreLast' = "avatarFrame"
  /\ IF ~isAvatarMode
     THEN SetSession(Session) /\ mapHeading' = mapHeading
     ELSE \E turn \in 0..1 :
            LET h == (avatarPose.heading + turn) % HeadingSteps
            IN /\ SetSession([Session EXCEPT !.avatarPose.heading = h])
               /\ mapHeading' = IF isOrbiting
                                THEN (mapHeading + 1) % HeadingSteps
                                ELSE h
  /\ UNCHANGED <<exploreCmds, timers, flyovers, ViewKept, ExploreRest>>

ExploreNext ==
  \/ ExploreCommand
  \/ ExploreTimerFires
  \/ OrbitCommand
  \/ ToggleOrbitClick
  \/ ToggleAvatarClick
  \/ ToggleExplorationClick
  \/ StartFlyoverClick
  \/ FlyoverEnds
  \/ OrbitFrame
  \/ AvatarFrame
  \/ ViewGeocodeDone
  \/ PanoDone
ExploreSpec == ExploreInit /\ [][ExploreNext]_vars

\* ------------------------------------------------------ walking a panorama
\* Keyboard and voice navigation while exploration mode shows the panorama
\* (avatar mode off).  The panorama keeps the point of view it is given:
\* setPov stores the heading, getPov returns it.
MaxPanoOps == 4
\* The bearings of the links a panorama may have, each in [0, 360); a
\* panorama has up to two links.
LinkHeadings == {0, 60, 320, 350}
LinkHeadingLists ==
  {<< >>} \cup {<<a>> : a \in LinkHeadings}
          \cup {p \in LinkHeadings \X LinkHeadings : p[1] # p[2]}
\* The links of the panorama reached by step n: link i leads to a panorama
\* of its own.
LinksOf(hs, n) == [i \in 1..Len(hs) |-> [heading |-> hs[i], pano |-> 10 * n + i]]
\* Math.abs.
MathAbs(x) == IF x < 0 THEN -x ELSE x
\* The % of JavaScript: the result has the sign of the dividend.
JsRemainder(a, n) == IF a >= 0 THEN a % n ELSE -((-a) % n)
\* let bestLink = null.
NoLink == [heading |-> 0, pano |-> 0]

\* The for loop of movePanoForward and movePanoBackward over the links that
\* are left, against the heading target.
RECURSIVE BestLink(_, _, _, _)
BestLink(links, target, bestLink, minDiff) ==
  IF links = << >> THEN bestLink
  ELSE LET link == Head(links)
           d == MathAbs(link.heading - target)
           diff == IF d > 180 THEN 360 - d ELSE d
       IN IF diff < minDiff /\ diff < 60
          THEN BestLink(Tail(links), target, link, diff)
          ELSE BestLink(Tail(links), target, bestLink, minDiff)

\* What a step notes: the heading and links it read, the panorama before and
\* after.
PanoStep(kind, to) ==
  [kind |-> kind, heading |-> povHeading, links |-> panoLinks, from |-> panoId,
   to |-> to]

\* movePanoForward.
movePanoForward ==
  LET bestLink == BestLink(panoLinks, povHeading, NoLink, 360)
  IN IF ~panorama \/ panoLinks = << >> \/ bestLink = NoLink
     THEN /\ panoLast' = PanoStep("forward", panoId)
          /\ UNCHANGED <<povHeading, panoLinks, panoId>>
     ELSE /\ panoLast' = PanoStep("forward", bestLink.pano)
          /\ panoId' = bestLink.pano
          /\ povHeading' = bestLink.heading
          /\ \E hs \in LinkHeadingLists : panoLinks' = LinksOf(hs, panoOps + 1)

\* movePanoBackward.
movePanoBackward ==
  LET backHeading == JsRemainder(povHeading + 180, 360)
      bestLink == BestLink(panoLinks, backHeading, NoLink, 360)
  IN IF ~panorama \/ panoLinks = << >> \/ bestLink = NoLink
     THEN /\ panoLast' = PanoStep("backward", panoId)
          /\ UNCHANGED <<povHeading, panoLinks, panoId>>
     ELSE /\ panoLast' = PanoStep("backward", bestLink.pano)
          /\ panoId' = bestLink.pano
          /\ povHeading' = povHeading
          /\ \E hs \in LinkHeadingLists : panoLinks' = LinksOf(hs, panoOps + 1)

\* rotatePano(degrees).
rotatePano(degrees) ==
  /\ povHeading' = IF panorama THEN povHeading + degrees ELSE povHeading
  /\ UNCHANGED <<panoLinks, panoId, panoLast>>

\* Exploration mode shows a panorama that was opened with heading 0.
PanoInit ==
  /\ povHeading = 0 /\ panoId = 0 /\ panoLast = NoPanoStep /\ panoOps = 0
  /\ \E hs \in LinkHeadingLists : panoLinks = LinksOf(hs, 0)
  /\ mapInitialized = TRUE /\ searchMarker = 1 /\ routeElems = NoRoute
  /\ routePath = << >> /\ tempChildren = {1}
  /\ currentLocation = [lat |-> 41, lng |-> 12] /\ showPano = TRUE
  /\ viewPending = << >> /\ viewSteps = [n |-> 0, cmds |-> 0]
  /\ viewLast = NoCallback /\ made = 1
  /\ avatarPose = [lat |-> 41, lng |-> 12, heading |-> 0] /\ panorama = TRUE
  /\ ExploreIdle
  /\ chatState = IDLE /\ inputMessage = << >> /\ messages = << >>
  /\ shouldSpeakNextResponse = FALSE /\ isExplorationMode = TRUE
  /\ currentLocationName = "Rome" /\ nCalls = 0
  /\ call = [c \in Calls |-> NoCall] /\ spoken = << >> /\ nRejects = 0
  /\ CaseIdle /\ ErrIdle /\ BucketIdle /\ LoadIdle /\ ToolIdle /\ FlyIdle
  /\ VoiceIdle

\* What walking the panorama leaves alone.
PanoRest == <<chatVars, caseVars, errVars, bucketVars, loadVars, toolVars,
              viewVars, exploreVars, flyVars, voiceVars>>
\* One more step or rotation.
PanoCounted == panoOps' = panoOps + 1 /\ UNCHANGED PanoRest

\* keydown of 'w' or ArrowUp.
KeyForward ==
  /\ panoOps < MaxPanoOps /\ isExplorationMode /\ ~isAvatarMode /\ panorama
  /\ movePanoForward /\ PanoCounted
\* keydown of 's' or ArrowDown.
KeyBackward ==
  /\ panoOps < MaxPanoOps /\ isExplorationMode /\ ~isAvatarMode /\ panorama
  /\ movePanoBackward /\ PanoCounted
\* keydown of 'a' or ArrowLeft.
KeyLeft ==
  /\ panoOps < MaxPanoOps /\ isExplorationMode /\ ~isAvatarMode /\ panorama
  /\ rotatePano(-10) /\ PanoCounted
\* keydown of 'd' or ArrowRight.
KeyRight ==
  /\ panoOps < MaxPanoOps /\ isExplorationMode /\ ~isAvatarMode /\ panorama
  /\ rotatePano(10) /\ PanoCounted
\* A voice command with 'left', avatar mode off.
VoiceLeft ==
  /\ panoOps < MaxPanoOps /\ ~isAvatarMode
  /\ rotatePano(-45) /\ PanoCounted
\* A voice command with 'right', avatar mode off.
VoiceRight ==
  /\ panoOps < MaxPanoOps /\ ~isAvatarMode
  /\ rotatePano(45) /\ PanoCounted

PanoNext ==
  \/ KeyForward
  \/ KeyBackward
  \/ KeyLeft
  \/ KeyRight
  \/ VoiceLeft
  \/ VoiceRight
PanoSpec == PanoInit /\ [][PanoNext]_vars

\* ------------------------------------------------------------ route flyover
\* startFlyover as the async function it is: it is suspended at the 2 s
\* timer and at each awaited flyCameraTo, and other handlers run meanwhile.
MaxPlaybacks == 2
MaxFlyPath == 3
MaxPathLen == 41
\* A stored route path of n points.
FlyPath(n) == [k \in 1..n |-> [lat |-> k, lng |-> 0]]
\* Math.max(1, Math.floor(length / 20)).
KeyframeStep(length) == IF length \div 20 > 1 THEN length \div 20 ELSE 1

\* A startFlyover call at its timer.  visited lists the indexes i it has
\* flown to; cleared notes that isSimulating was set to false since the call
\* began, late counts the keyframes it started after that.
NewPlayback ==
  [pc |-> "timer", i |-> 0, step |-> 0, visited |-> << >>, cleared |-> FALSE,
   late |-> 0, flagAtReturn |-> FALSE]
\* The calls that are suspended see the flag cleared.
FlagCleared(ps) ==
  [q \in 1..Len(ps) |->
     IF ps[q].pc # "returned" THEN [ps[q] EXCEPT !.cleared = TRUE] ELSE ps[q]]

\* The head of the for loop of call p with loop variable i: the next
\* flyCameraTo is issued and awaited, or the loop is left and the function
\* returns after this.isSimulating = false.
LoopHead(p, i, step) ==
  IF i < Len(routePath) /\ isSimulating
  THEN /\ playbacks' = [playbacks EXCEPT ![p] =
                          [@ EXCEPT !.pc = "flying", !.i = i, !.step = step,
                                    !.visited = Append(@, i),
                                    !.late = IF playbacks[p].cleared
                                             THEN @ + 1 ELSE @]]
       /\ SetSession(Session)
       /\ flyovers' = flyovers
  ELSE /\ playbacks' =
            [(IF isSimulating THEN FlagCleared(playbacks) ELSE playbacks)
               EXCEPT ![p] = [playbacks[p] EXCEPT !.pc = "returned", !.i = i,
                                                  !.step = step,
                                                  !.flagAtReturn = FALSE]]
       /\ SetSession([Session EXCEPT !.isSimulating = FALSE])
       /\ flyovers' = flyovers - 1

\* A route is shown on the loaded map; nothing else has happened.
RouteShown ==
  /\ mapInitialized = TRUE /\ searchMarker = 0
  /\ routeElems = [polyline |-> 1, origin |-> 2, destination |-> 3]
  /\ tempChildren = {1, 2, 3}
  /\ currentLocation = [lat |-> 1, lng |-> 0] /\ showPano = FALSE
  /\ viewPending = << >> /\ viewSteps = [n |-> 0, cmds |-> 0]
  /\ viewLast = NoCallback /\ made = 3
  /\ avatarPose = [lat |-> 0, lng |-> 0, heading |-> 0] /\ panorama = FALSE
  /\ ExploreIdle /\ FlyIdle /\ PanoIdle /\ VoiceIdle
  /\ chatState = IDLE /\ inputMessage = << >> /\ messages = << >>
  /\ shouldSpeakNextResponse = FALSE /\ isExplorationMode = FALSE
  /\ currentLocationName = "Route to Rome" /\ nCalls = 0
  /\ call = [c \in Calls |-> NoCall] /\ spoken = << >> /\ nRejects = 0
  /\ CaseIdle /\ ErrIdle /\ BucketIdle /\ LoadIdle /\ ToolIdle

\* What the flyover leaves alone.
FlyRest == <<timers, mapHeading, ViewKept, chatState, inputMessage,
             shouldSpeakNextResponse, nCalls, call, spoken, nRejects, caseVars,
             errVars, bucketVars, loadVars, toolVars, panoVars, voiceVars>>

\* The Start Flyover button, shown while a route is stored and neither a
\* playback flag nor exploration mode is on: startFlyover up to its timer.
FlyoverStarts ==
  /\ routePath # << >> /\ ~isSimulating /\ ~isExplorationMode
  /\ mapInitialized /\ Len(playbacks) < MaxPlaybacks
  /\ Noted("startFlyover")
  /\ playbacks' = Append(playbacks, NewPlayback)
  /\ flyovers' = flyovers + 1
  /\ SetSession(updated(Session,
       [(IF isOrbiting
         THEN stopOrbitLoop([Session EXCEPT !.isOrbiting = FALSE])
         ELSE Session) EXCEPT !.isSimulating = TRUE]))
  /\ UNCHANGED FlyRest

\* The orbit button while a route is shown.
FlyToggleOrbit ==
  /\ Noted("toggleOrbit")
  /\ LET x == toggleOrbit(Session)
     IN /\ SetSession(updated(Session, x))
        /\ playbacks' = IF isSimulating /\ ~x.isSimulating
                        THEN FlagCleared(playbacks) ELSE playbacks
  /\ UNCHANGED <<flyovers, FlyRest>>

\* The 2 s timer of a call is over: the step is computed and the loop begins.
FlyTimerDone ==
  \E p \in 1..Len(playbacks) :
    /\ playbacks[p].pc = "timer"
    /\ LoopHead(p, 0, KeyframeStep(Len(routePath)))
    /\ exploreLast' = "flyTimer"
    /\ UNCHANGED <<exploreCmds, FlyRest>>

\* The flyCameraTo a call awaits is over: i += step and the loop goes on.
FlyToDone ==
  \E p \in 1..Len(playbacks) :
    /\ playbacks[p].pc = "flying"
    /\ LoopHead(p, playbacks[p].i + playbacks[p].step, playbacks[p].step)
    /\ exploreLast' = "flyTo"
    /\ UNCHANGED <<exploreCmds, FlyRest>>

FlyNext ==
  \/ FlyoverStarts
  \/ FlyToggleOrbit
  \/ FlyTimerDone
  \/ FlyToDone
FlyInit ==
  /\ \E n \in 1..MaxFlyPath : routePath = FlyPath(n)
  /\ RouteShown
FlySpec == FlyInit /\ [][FlyNext]_vars

\* Playbacks of paths of every length, one after the other.
KeyframeNext ==
  \/ FlyoverStarts
  \/ FlyTimerDone
  \/ FlyToDone
KeyframeInit ==
  /\ \E n \in 1..MaxPathLen : routePath = FlyPath(n)
  /\ RouteShown
KeyframeSpec == KeyframeInit /\ [][KeyframeNext]_vars

\* -------------------------------------------------------- the search marker
\* VIEW commands, ADD_BUCKET commands for a place that is in the list and
\* the Locate Me button, with their callbacks in any order.
MaxMarkerCmds == 3
MY_LOCATION == "My Current Location"
FORMATTED_ADDRESS == "Via Roma 1"
COULD_NOT_ACCESS == <<"Could not access location. Please check permissions.">>

\* The map is loaded and shows the marker of the one item of a list saved
\* by an earlier session.
MarkerInit ==
  /\ bucketList = loadBucketList([kind |-> "json",
                                  items |-> StringifyList(<<StoredItem>>)])
  /\ storage = [kind |-> "json", items |-> StringifyList(<<StoredItem>>)]
  /\ selectedChatTab = GEMINI
  /\ bucketMarkers = <<[id |-> StoredItem.id, marker |-> 1]>>
  /\ mapChildren = {1} /\ mapLoad = "ready" /\ changed = FALSE
  /\ pending = << >> /\ created = [ids |-> 0, markers |-> 1]
  /\ lastSave = "ok" /\ events = [n |-> 0, cmds |-> 0, recent |-> << >>]
  /\ mapInitialized = TRUE /\ searchMarker = 0 /\ routeElems = NoRoute
  /\ routePath = << >> /\ tempChildren = {}
  /\ currentLocation = NoLocation /\ showPano = FALSE
  /\ viewPending = << >> /\ viewSteps = [n |-> 0, cmds |-> 0]
  /\ viewLast = NoCallback /\ made = 0
  /\ avatarPose = [lat |-> 0, lng |-> 0, heading |-> 0] /\ panorama = FALSE
  /\ ChatIdle /\ CaseIdle /\ ErrIdle /\ LoadIdle /\ ToolIdle /\ ExploreIdle
  /\ LateIdle

\* What these handlers leave alone of the bucket list and the rest.
MarkerRest == <<bucketList, bucketMarkers, mapChildren, storage, mapLoad,
                changed, pending, created, lastSave, events, chatState,
                inputMessage, shouldSpeakNextResponse, isExplorationMode,
                nCalls, call, spoken, nRejects, caseVars, errVars, loadVars,
                toolVars, exploreVars, lateVars>>

\* handleMapQuery({command: 'VIEW', location}).
MarkerView ==
  /\ viewSteps.cmds < MaxMarkerCmds
  /\ \E q \in ViewQueries : _handleViewLocation(q)
  /\ viewSteps' = [n |-> viewSteps.n + 1, cmds |-> viewSteps.cmds + 1]
  /\ UNCHANGED <<mapInitialized, currentLocation, showPano, viewLast, made,
                 avatarPose, panorama, currentLocationName, messages,
                 selectedChatTab, MarkerRest>>

\* handleMapQuery({command: 'ADD_BUCKET', location}) for a name that is in
\* the list: the branch of _handleAddToBucketList that views the place.
AddBucketDuplicate ==
  /\ viewSteps.cmds < MaxMarkerCmds
  /\ mapInitialized
  /\ \E i \in 1..Len(bucketList) :
       /\ EqualsIgnoreCase(bucketList[i].name, StoredItem.name)
       /\ _handleViewLocation(StoredItem.name)
  /\ selectedChatTab' = TabAfterDuplicate(selectedChatTab)
  /\ viewSteps' = [n |-> viewSteps.n + 1, cmds |-> viewSteps.cmds + 1]
  /\ UNCHANGED <<mapInitialized, currentLocation, showPano, viewLast, made,
                 avatarPose, panorama, currentLocationName, messages,
                 MarkerRest>>

\* _handleLocateMe up to navigator.geolocation.getCurrentPosition.
LocateMeClick ==
  /\ viewSteps.cmds < MaxMarkerCmds
  /\ viewPending' = Append(viewPending, Request("position", MY_LOCATION, MapState))
  /\ viewSteps' = [n |-> viewSteps.n + 1, cmds |-> viewSteps.cmds + 1]
  /\ UNCHANGED <<mapInitialized, searchMarker, routeElems, routePath,
                 tempChildren, currentLocation, showPano, viewLast, made,
                 avatarPose, panorama, currentLocationName, messages,
                 selectedChatTab, MarkerRest>>

\* A callback of this section runs.
MarkerCallback(i, ok) ==
  /\ viewSteps' = [viewSteps EXCEPT !.n = @ + 1]
  /\ viewLast' = [kind |-> viewPending[i].kind, ok |-> ok,
                  at |-> viewPending[i].at, before |-> viewPending[i].before]
  /\ UNCHANGED <<mapInitialized, selectedChatTab, MarkerRest>>

\* The success callback of getCurrentPosition: the temporary elements are
\* cleared, the address and a panorama are asked for, the location is set
\* and the "My Location" marker is attached.
PositionFound ==
  \E i \in 1..Len(viewPending), loc \in Locations :
    /\ viewPending[i].kind = "position"
    /\ MarkerCallback(i, TRUE)
    /\ viewPending' = Without(viewPending, i)
                        \o <<Request("reverse", MY_LOCATION, viewPending[i].before),
                             Request("pano", MY_LOCATION, viewPending[i].before)>>
    /\ currentLocation' = loc
    /\ avatarPose' = [avatarPose EXCEPT !.lat = loc.lat, !.lng = loc.lng]
    /\ made' = made + 1
    /\ searchMarker' = made + 1
    /\ tempChildren' = (tempChildren \ {searchMarker, routeElems.polyline,
                                        routeElems.origin, routeElems.destination})
                         \cup {made + 1}
    /\ routeElems' = NoRoute
    /\ routePath' = << >>
    /\ UNCHANGED <<showPano, panorama, currentLocationName, messages>>

\* The error callback of getCurrentPosition.
PositionFailed ==
  \E i \in 1..Len(viewPending) :
    /\ viewPending[i].kind = "position"
    /\ MarkerCallback(i, FALSE)
    /\ viewPending' = Without(viewPending, i)
    /\ messages' = Append(messages, NewMessage("error", COULD_NOT_ACCESS, 0))
    /\ UNCHANGED <<searchMarker, routeElems, routePath, tempChildren,
                   currentLocation, showPano, made, currentLocationName,
                   avatarPose, panorama>>

\* The callback of the reverse geocode of _handleLocateMe.
ReverseGeocodeDone ==
  \E i \in 1..Len(viewPending), ok \in BOOLEAN :
    /\ viewPending[i].kind = "reverse"
    /\ MarkerCallback(i, ok)
    /\ viewPending' = Without(viewPending, i)
    /\ currentLocationName' = IF ok THEN FORMATTED_ADDRESS ELSE MY_LOCATION
    /\ UNCHANGED <<searchMarker, routeElems, routePath, tempChildren,
                   currentLocation, showPano, made, avatarPose, panorama,
                   messages>>

\* The geocode callback of _handleViewLocation and the panorama callback are
\* those of the view section.
MarkerNext ==
  \/ MarkerView
  \/ AddBucketDuplicate
  \/ LocateMeClick
  \/ PositionFound
  \/ PositionFailed
  \/ ReverseGeocodeDone
  \/ ViewGeocodeDone
  \/ PanoDone
MarkerSpec == MarkerInit /\ [][MarkerNext]_vars

\* ------------------------------------------------------------ voice commands
\* Speech recognition in exploration mode.  A transcript is the sequence of
\* its characters; recognition.stop() asks the service to stop listening and
\* to return a result from the audio it has, so a result or the end event
\* follows the stop.
\* The keywords of handleVoiceCommand and the transcripts, as characters.
K_forward == <<"f", "o", "r", "w", "a", "r", "d">>
K_walk == <<"w", "a", "l", "k">>
K_go == <<"g", "o">>
K_backward == <<"b", "a", "c", "k", "w", "a", "r", "d">>
K_back == <<"b", "a", "c", "k">>
K_left == <<"l", "e", "f", "t">>
K_right == <<"r", "i", "g", "h", "t">>
K_exit == <<"e", "x", "i", "t">>
K_stop_exploring == <<"s", "t", "o", "p", " ", "e", "x", "p", "l", "o", "r", "i", "n", "g">>
K_avatar == <<"a", "v", "a", "t", "a", "r">>
K_person == <<"p", "e", "r", "s", "o", "n">>
K_third_person == <<"t", "h", "i", "r", "d", " ", "p", "e", "r", "s", "o", "n">>
K_first_person == <<"f", "i", "r", "s", "t", " ", "p", "e", "r", "s", "o", "n">>
K_street_view == <<"s", "t", "r", "e", "e", "t", " ", "v", "i", "e", "w">>
K_spin == <<"s", "p", "i", "n">>
K_orbit == <<"o", "r", "b", "i", "t">>
K_360 == <<"3", "6", "0">>
K_narrate == <<"n", "a", "r", "r", "a", "t", "e">>
K_guide_me == <<"g", "u", "i", "d", "e", " ", "m", "e">>
K_tell_me_about == <<"t", "e", "l", "l", " ", "m", "e", " ", "a", "b", "o", "u", "t">>
K_stop_speaking == <<"s", "t", "o", "p", " ", "s", "p", "e", "a", "k", "i", "n", "g">>
K_quiet == <<"q", "u", "i", "e", "t">>
T_FIRST_PERSON == <<"f", "i", "r", "s", "t", " ", "p", "e", "r", "s", "o", "n">>
T_STREET_VIEW == <<"s", "t", "r", "e", "e", "t", " ", "v", "i", "e", "w">>
T_GO_STREET_VIEW == <<"g", "o", " ", "t", "o", " ", "s", "t", "r", "e", "e", "t", " ", "v", "i", "e", "w">>
T_AVATAR == <<"a", "v", "a", "t", "a", "r">>
T_EXIT == <<"e", "x", "i", "t">>
T_SPIN == <<"s", "p", "i", "n">>
Transcripts ==
  {T_FIRST_PERSON,
   T_STREET_VIEW,
   T_GO_STREET_VIEW,
   T_AVATAR,
   T_EXIT,
   T_SPIN}

\* String.prototype.includes of the transcript.
Has(command, keyword) == StringIncludes(command, keyword)

\* The if-else chain of handleVoiceCommand: the branch a transcript takes.
VoiceBranch(command) ==
  IF Has(command, K_forward) \/ Has(command, K_walk) \/ Has(command, K_go)
  THEN "forward"
  ELSE IF Has(command, K_backward) \/ Has(command, K_back) THEN "backward"
  ELSE IF Has(command, K_left) THEN "left"
  ELSE IF Has(command, K_right) THEN "right"
  ELSE IF Has(command, K_exit) \/ Has(command, K_stop_exploring) THEN "exit"
  ELSE IF Has(command, K_avatar) \/ Has(command, K_person)
          \/ Has(command, K_third_person)
  THEN "avatar"
  ELSE IF Has(command, K_first_person) \/ Has(command, K_street_view)
  THEN "streetView"
  ELSE IF Has(command, K_spin) \/ Has(command, K_orbit) \/ Has(command, K_360)
  THEN "orbit"
  ELSE IF Has(command, K_narrate) \/ Has(command, K_guide_me)
          \/ Has(command, K_tell_me_about)
  THEN "narrate"
  ELSE IF Has(command, K_stop_speaking) \/ Has(command, K_quiet) THEN "quiet"
  ELSE "query"

\* What the branch does to the session.  The movement branches press keys
\* or step the panorama, the narrate and query branches start a chat turn
\* (the chat section); none of them touches the session.
VoiceEffect(branch, x) ==
  CASE branch = "exit" -> toggleExplorationMode(x)
    [] branch = "avatar" -> IF ~x.isAvatarMode THEN toggleAvatarMode(x) ELSE x
    [] branch = "streetView" -> IF x.isAvatarMode THEN toggleAvatarMode(x) ELSE x
    [] branch = "orbit" -> toggleOrbit(x)
    [] OTHER -> x

\* initSpeechRecognition: a new recognition object takes the place of the
\* one before, which goes on if it was started.
initSpeechRecognition(r) ==
  [current |-> "idle",
   old |-> IF r.current = "started" THEN r.old + 1 ELSE r.old]

\* The effect of toggleExplorationMode on speech recognition: it is set up
\* on entering, stopListening on leaving.
ListeningAfter(x, y) ==
  /\ recognition' = IF ~x.isExplorationMode /\ y.isExplorationMode
                    THEN initSpeechRecognition(recognition) ELSE recognition
  /\ isListening' = IF x.isExplorationMode /\ ~y.isExplorationMode
                    THEN FALSE ELSE isListening

\* A panorama is shown for the place that was viewed.
VoiceInit ==
  /\ ExploreInit
  /\ showPano

\* What the voice section leaves alone.
VoiceRest == <<timers, mapHeading, flyovers, ViewKept, chatState, inputMessage,
               shouldSpeakNextResponse, nCalls, call, spoken, nRejects,
               caseVars, errVars, bucketVars, loadVars, toolVars, panoVars,
               flyVars>>

\* The Start Walking button and the exit button.
VoiceToggleExploration ==
  /\ isExplorationMode \/ showPano
  /\ Noted("toggleExplorationMode")
  /\ LET y == toggleExplorationMode(Session)
     IN SetSession(updated(Session, y)) /\ ListeningAfter(Session, y)
  /\ UNCHANGED <<voiceLast, VoiceRest>>

\* The view switch shown in exploration mode.
VoiceToggleAvatar ==
  /\ isExplorationMode
  /\ Noted("toggleAvatarMode")
  /\ SetSession(updated(Session, toggleAvatarMode(Session)))
  /\ UNCHANGED <<voiceVars, VoiceRest>>

\* toggleListening: the microphone button shown in exploration mode.  start()
\* throws when the object is started already; the exception is caught.
ToggleListeningClick ==
  /\ isExplorationMode
  /\ Noted("toggleListening")
  /\ LET r == IF recognition.current = "none"
              THEN initSpeechRecognition(recognition) ELSE recognition
     IN IF isListening \/ r.current = "started"
        THEN recognition' = r /\ isListening' = isListening
        ELSE recognition' = [r EXCEPT !.current = "started"]
             /\ isListening' = TRUE
  /\ SetSession(Session)
  /\ UNCHANGED <<voiceLast, VoiceRest>>

\* recognition.onresult of the current object (which = 0) or of a replaced
\* one: the transcript is handled, isListening is cleared, and the
\* recognition, which is not continuous, has ended.
VoiceResult ==
  \E command \in Transcripts, which \in 0..1 :
    /\ IF which = 0 THEN recognition.current = "started" ELSE recognition.old > 0
    /\ LET branch == VoiceBranch(command)
           y == VoiceEffect(branch, Session)
           r == IF which = 0 THEN [recognition EXCEPT !.current = "idle"]
                ELSE [recognition EXCEPT !.old = @ - 1]
       IN /\ SetSession(updated(Session, y))
          /\ recognition' = IF ~isExplorationMode /\ y.isExplorationMode
                            THEN initSpeechRecognition(r) ELSE r
          /\ isListening' = FALSE
          /\ voiceLast' = [n |-> voiceLast.n + 1, command |-> command,
                           branch |-> branch, avatarBefore |-> isAvatarMode,
                           avatarAfter |-> y.isAvatarMode]
    /\ exploreLast' = "voiceResult"
    /\ UNCHANGED <<exploreCmds, VoiceRest>>

\* recognition.onend or onerror without a result.
VoiceEnds ==
  \E which \in 0..1 :
    /\ IF which = 0 THEN recognition.current = "started" ELSE recognition.old > 0
    /\ recognition' = IF which = 0 THEN [recognition EXCEPT !.current = "idle"]
                      ELSE [recognition EXCEPT !.old = @ - 1]
    /\ isListening' = FALSE
    /\ exploreLast' = "voiceEnd"
    /\ SetSession(Session)
    /\ UNCHANGED <<exploreCmds, voiceLast, VoiceRest>>

VoiceNext ==
  \/ VoiceToggleExploration
  \/ VoiceToggleAvatar
  \/ ToggleListeningClick
  \/ VoiceResult
  \/ VoiceEnds
VoiceSpec == VoiceInit /\ [][VoiceNext]_vars

\* ================================================================ claims
\* The handler of invocation c is running (entered, not yet returned).
HandlerRunning(c) == call[c].pc \in HandlerPcs
\* The handler of invocation c has returned or thrown.
HandlerLeft(c) == call[c].pc \in {"resume", "done", "failed"}
\* The handler of invocation c returned without throwing.
HandlerReturned(c) == call[c].pc \in {"resume", "done"}
\* This step takes invocation c out of its handler.
Finalizes(c) == HandlerRunning(c) /\ call'[c].pc \notin HandlerPcs

C2_TurnsEndIdle ==
  /\ []((\A c \in Calls : ~HandlerRunning(c)) => chatState = IDLE)
  /\ [][\A c \in Calls : Finalizes(c) => chatState' = IDLE]_vars

\* C2 witness: a turn whose error rendering threw has ended and the chat is
\* idle.
C2_Witness ==
  \E c \in Calls : call[c].pc = "failed" /\ call[c].streamFailed
                   /\ ~call[c].postDone /\ chatState = IDLE

\* C3: a sendMessageAction call made while ChatState is not IDLE changes
\* neither the message list nor the input field nor ChatState, and starts
\* nothing (no other invocation moves, the handler is not entered).
C3_RejectedCallNoEffect ==
  [][(nCalls' = nCalls + 1 /\ chatState # IDLE)
       => /\ messages' = messages
          /\ inputMessage' = inputMessage
          /\ chatState' = chatState
          /\ call'[nCalls'].pc \in {"rejected", "nolocation"}
          /\ \A c \in Calls : c # nCalls' => call'[c].pc = call[c].pc]_vars

\* C3 witness: a call was rejected while a turn was in flight.
C3_Witness ==
  \E c \in Calls : call[c].pc = "rejected" /\ chatState # IDLE

\* The edges of the ChatState machine.
ChatEdges ==
  {<<IDLE, GENERATING>>, <<GENERATING, THINKING>>, <<GENERATING, EXECUTING>>,
   <<THINKING, EXECUTING>>, <<EXECUTING, THINKING>>,
   <<GENERATING, IDLE>>, <<THINKING, IDLE>>, <<EXECUTING, IDLE>>}

AnswerHtml(c) == messages[call[c].textIdx].html
\* The source chips an element can show for one URI.
ChipTokens(u) == {Chip([uri |-> u, title |-> t]) : t \in Titles}
ChipUri(tok) == CHOOSE u \in Uris : tok \in ChipTokens(u)
IsChip(tok) == \E u \in Uris : tok \in ChipTokens(u)
\* The URIs of the chips of an element, in order.
ChipUris(html) ==
  LET chips == SelectSeq(html, IsChip)
  IN [i \in 1..Len(chips) |-> ChipUri(chips[i])]
\* The number of Sources blocks in an element.
BlockCount(html) == Cardinality({i \in 1..Len(html) : html[i] = "<sources>"})
FirstSeenUris(c) ==
  [i \in 1..Len(call[c].firstSeen) |-> call[c].firstSeen[i].uri]

\* C5: the Sources block of a turn shows, for every URI that arrived with a
\* title, exactly one entry, titled as in the grounding chunk that arrived
\* first.
C5_FirstSeenTitle ==
  \A c \in Calls :
    call[c].postDone =>
      \A i \in 1..Len(call[c].firstSeen) :
        /\ Includes(AnswerHtml(c), Chip(call[c].firstSeen[i]))
        /\ Cardinality({k \in 1..Len(AnswerHtml(c)) :
              AnswerHtml(c)[k] \in ChipTokens(call[c].firstSeen[i].uri)}) = 1

\* C6: every turn that collected a grounding source has, once its
\* handler is left, exactly one Sources block on its answer, with one entry
\* per URI in first-seen order; a turn that collected none has no block; no
\* block is there while fragments are arriving.
C6_SourcesBlockOnce ==
  \A c \in Calls :
    call[c].textIdx # 0 =>
      /\ (HandlerLeft(c) /\ call[c].firstSeen # << >>)
           => /\ BlockCount(AnswerHtml(c)) = 1
              /\ ChipUris(AnswerHtml(c)) = FirstSeenUris(c)
      /\ (HandlerLeft(c) /\ call[c].firstSeen = << >>)
           => BlockCount(AnswerHtml(c)) = 0
      /\ call[c].pc \in {"stream", "renderCall", "renderError"}
           => BlockCount(AnswerHtml(c)) = 0

\* A tool-call message emitted by invocation c is in the list.
EmittedCall(c) ==
  \E i \in 1..Len(messages) :
    messages[i].owner = c /\ Includes(messages[i].html, CALLING)

\* C7: after a turn without sources, the answer is empty only if a tool-call
\* message was emitted during this turn, and is the "Done." acknowledgement
\* only if none was emitted during this turn.
C7_DoneUnlessToolCallThisTurn ==
  \A c \in Calls :
    (HandlerReturned(c) /\ call[c].uniqueSources = << >>) =>
      /\ AnswerHtml(c) # PLACEHOLDER
      /\ AnswerHtml(c) = << >> => EmittedCall(c)
      /\ AnswerHtml(c) = MarkedParse(<<"Done.">>) => ~EmittedCall(c)

\* The texts submitted to speak() by invocation c, in order.
SpokenFor(c) ==
  LET mine == SelectSeq(spoken, LAMBDA s : s.turn = c)
  IN [i \in 1..Len(mine) |-> mine[i].text]

\* Invocation c leaves the loop over the stream's fragments in this step.
LeavesStream(c) ==
  /\ call[c].pc \in {"stream", "renderCall"}
  /\ call'[c].pc \notin {"stream", "renderCall"}

\* C8: a turn for which narration was requested and whose final text is not
\* empty has submitted exactly that text to speech synthesis, once, when its
\* handler is left; nothing is submitted while fragments are arriving; and
\* the flag is false once the last fragment has been processed.
C8_NarrationSpokenOnce ==
  /\ [](\A c \in Calls :
          (HandlerLeft(c) /\ call[c].narration /\ call[c].newCode # << >>)
            => SpokenFor(c) = <<call[c].newCode>>)
  /\ [](\A c \in Calls :
          call[c].pc \in {"stream", "renderCall"} => SpokenFor(c) = << >>)
  /\ [][\A c \in Calls :
          (LeavesStream(c) /\ call'[c].narration /\ call'[c].newCode # << >>)
            => ~shouldSpeakNextResponse']_vars

\* C9: a turn whose stream failed after answer text had accumulated, with
\* narration requested, has submitted the accumulated text to speech
\* synthesis when its handler is left, and the step on which the stream
\* fails leaves the flag false.
C9_FailedTurnStillNarrates ==
  /\ [](\A c \in Calls :
          (HandlerLeft(c) /\ call[c].streamFailed /\ call[c].narration
             /\ call[c].newCode # << >>)
            => SpokenFor(c) = <<call[c].newCode>>)
  /\ [][\A c \in Calls :
          (LeavesStream(c) /\ call'[c].streamFailed /\ call'[c].narration
             /\ call'[c].newCode # << >>)
            => ~shouldSpeakNextResponse']_vars

\* The error elements created by invocation c.
ErrorsOf(c) ==
  {i \in 1..Len(messages) : messages[i].owner = c /\ messages[i].role = "error"}

\* C10: a turn has exactly one error message if an error was thrown inside
\* the inner try and none otherwise, and no message of the turn comes after
\* its error message.
C10_OneErrorMessageLast ==
  \A c \in Calls :
    /\ Cardinality(ErrorsOf(c)) = IF call[c].streamFailed THEN 1 ELSE 0
    /\ \A i \in ErrorsOf(c) :
         \A j \in 1..Len(messages) : messages[j].owner = c => j <= i

\* C10 witness: a turn failed after a tool-call message of its own, and its
\* error message is in the list.
C10_Witness ==
  \E c \in Calls :
    /\ HandlerLeft(c) /\ call[c].streamFailed /\ EmittedCall(c)
    /\ ErrorsOf(c) # {}

\* The base text as the precedence states it.
C11_Base(e) ==
  IF e.kind \in {"Error", "string"} THEN e.message
  ELSE IF GetProp(e.val, "message").t = "str"
       THEN TextOf(GetProp(e.val, "message").s)
       ELSE <<UNEXPECTED>> \o JsonStringify(e.val)
\* The message the embedded JSON object of a text offers: the nested
\* error.message if it is a string, else the top-level message if it is a
\* string; undefined when there is no such object or no such string.
C11_Offered(base) ==
  LET opens == {i \in 1..Len(base) : base[i] = "{"}
      closes == {i \in 1..Len(base) : base[i] = "}"}
      first == CHOOSE i \in opens : \A j \in opens : i <= j
      last == CHOOSE i \in closes : \A j \in closes : j <= i
      parsed == JsonParse(SubSeq(base, first, last))
      nested == GetProp(GetProp(parsed.val, "error"), "message")
      top == GetProp(parsed.val, "message")
  IN IF opens = {} \/ closes = {} THEN JsUndefined
     ELSE IF last < first \/ ~parsed.ok THEN JsUndefined
     ELSE IF nested.t = "str" THEN nested
     ELSE IF top.t = "str" THEN top
     ELSE JsUndefined
QuotaExample ==
  [kind |-> "Error", val |-> JsUndefined,
   message |-> <<UNEXPECTED, "{", Quote("error"), ":", "{", Quote("message"),
                 ":", Quote("quota exceeded"), "}", "}">>]

\* C11 as claimed: the error text is "Error:" followed by the message the
\* embedded JSON object offers whenever it offers a string, and by the base
\* text otherwise.
C11_ErrorTextPrecedence ==
  errorText # << >> =>
    errorText = <<"Error:">> \o
      (IF C11_Offered(C11_Base(thrown)).t = "str"
       THEN TextOf(C11_Offered(C11_Base(thrown)).s)
       ELSE C11_Base(thrown))

\* C11 as amended: the offered message replaces the base text only when it
\* is a non-empty string; an empty offered message leaves the base text, as
\* a parse failure does.  The quota example renders as Error: quota exceeded.
C11_ErrorTextPrecedenceNonEmpty ==
  errorText # << >> =>
    /\ errorText = <<"Error:">> \o
         (IF /\ C11_Offered(C11_Base(thrown)).t = "str"
             /\ C11_Offered(C11_Base(thrown)).s # ""
          THEN <<C11_Offered(C11_Base(thrown)).s>>
          ELSE C11_Base(thrown))
    /\ thrown = QuotaExample => errorText = <<"Error:", "quota exceeded">>

\* C11 witness: the quota example has been turned into its error text.
C11_Witness ==
  thrown = QuotaExample /\ errorText = <<"Error:", "quota exceeded">>

\* C12: converting a converted tool name gives the same name again, and
\* viewLocationGoogleMaps converts to view-location-google-maps.
C12_ConversionIdempotent ==
  /\ Len(dashed) = 2 => dashed[2] = dashed[1]
  /\ (Len(dashed) >= 1 /\ ident = viewLocationGoogleMaps)
       => dashed[1] = <<"v", "i", "e", "w", "-", "l", "o", "c", "a", "t", "i", "o", "n", "-", "g", "o", "o", "g", "l", "e", "-", "m", "a", "p", "s">>

\* C12 witness: a name in which both patterns match was converted twice.
C12_Witness ==
  /\ ident = <<"a", "A", "B", "a">>
  /\ Len(dashed) = 2
  /\ dashed[2] = <<"a", "-", "a", "-", "b", "a">>

\* C13: no other tool name converts to the wire-level name of this one.
C13_ConversionLossless ==
  Len(dashed) >= 1 =>
    \A other \in Identifiers :
      other # ident => camelCaseToDash(other) # dashed[1]

\* The step is a command or callback of the given type; its log entry.
Logged(type) ==
  /\ events'.n = events.n + 1
  /\ events'.recent[Len(events'.recent)].type = type
LastEvent == events.recent[Len(events.recent)]
NewEvent == events'.recent[Len(events'.recent)]
SameNameIgnoringCase(a, b) == toLowerCase(CharsOf(a)) = toLowerCase(CharsOf(b))
HasName(list, name) ==
  \E i \in 1..Len(list) : SameNameIgnoringCase(list[i].name, name)

\* C14: the bucket list never holds two items whose names are equal
\* ignoring case.
C14_NoDuplicateNames ==
  \A i, j \in 1..Len(bucketList) :
    i # j => ~SameNameIgnoringCase(bucketList[i].name, bucketList[j].name)

\* C15 as claimed: an add of a name that the list holds ignoring case leaves
\* the list unchanged, requests the view of the location and selects the
\* bucket-list tab.
C15_DuplicateAddIsView ==
  [][(Logged("add") /\ HasName(bucketList, NewEvent.query)) =>
       /\ bucketList' = bucketList
       /\ selectedChatTab' = BUCKET_LIST
       /\ pending' = Append(pending, [kind |-> "view", query |-> NewEvent.query,
                                      notes |-> NoNotes])]_vars

\* C15 as amended: the same when the map services are ready; when they are
\* not, the list and the selected tab are unchanged, no view is requested
\* and an error message is appended.
C15_DuplicateAddIsViewWhenReady ==
  [][(Logged("add") /\ HasName(bucketList, NewEvent.query)) =>
       /\ bucketList' = bucketList
       /\ MapReady =>
            /\ selectedChatTab' = BUCKET_LIST
            /\ pending' = Append(pending, [kind |-> "view", query |-> NewEvent.query,
                                           notes |-> NoNotes])
            /\ messages' = messages
       /\ ~MapReady =>
            /\ selectedChatTab' = selectedChatTab
            /\ pending' = pending
            /\ Len(messages') = Len(messages) + 1
            /\ messages'[Len(messages')].role = "error"]_vars

\* C15 witness: "rome" was asked to be added while the list held "Rome"; the
\* bucket-list tab is selected and the view is requested.
C15_Witness ==
  /\ events.recent # << >>
  /\ LastEvent.type = "add" /\ LastEvent.outcome = "duplicate"
  /\ LastEvent.query = "rome"
  /\ \E i \in 1..Len(bucketList) : bucketList[i].name = "Rome"
  /\ selectedChatTab = BUCKET_LIST
  /\ \E i \in 1..Len(pending) : pending[i] = [kind |-> "view", query |-> "rome",
                                              notes |-> NoNotes]

\* C16: a successful geocode of an add appends exactly one item, with a new
\* id, the name and notes of the request and the geocoded coordinates, and
\* selects the bucket-list tab; a failed one leaves list and tab unchanged;
\* once the map is ready and the update has run, every item of the list has
\* exactly one marker.
C16_AddCreatesOneItem ==
  /\ [][Logged("geocodeAdd") =>
          IF NewEvent.outcome = "OK"
          THEN /\ Len(bucketList') = Len(bucketList) + 1
               /\ SubSeq(bucketList', 1, Len(bucketList)) = bucketList
               /\ LET item == bucketList'[Len(bucketList')]
                  IN /\ item.name = NewEvent.query
                     /\ item.notes = NewEvent.notes
                     /\ item.lat = NewEvent.loc.lat
                     /\ item.lng = NewEvent.loc.lng
                     /\ item.id \notin Ids(bucketList)
               /\ selectedChatTab' = BUCKET_LIST
          ELSE /\ bucketList' = bucketList
               /\ selectedChatTab' = selectedChatTab]_vars
  /\ []((MapReady /\ ~changed) =>
          \A i \in 1..Len(bucketList) :
            Cardinality({k \in 1..Len(bucketMarkers) :
                           bucketMarkers[k].id = bucketList[i].id}) = 1)

\* C16 witness: an item with notes was added by a successful geocode, the
\* update has run and the item has its marker on the map.
C16_Witness ==
  /\ events.recent # << >>
  /\ LastEvent.type = "geocodeAdd" /\ LastEvent.outcome = "OK"
  /\ LastEvent.notes # NoNotes
  /\ ~changed /\ MapReady /\ selectedChatTab = BUCKET_LIST
  /\ bucketList # << >>
  /\ bucketList[Len(bucketList)].notes = LastEvent.notes
  /\ \E k \in 1..Len(bucketMarkers) :
       /\ bucketMarkers[k].id = bucketList[Len(bucketList)].id
       /\ bucketMarkers[k].marker \in mapChildren

\* The name contains the query, ignoring case.
ContainsIgnoringCase(name, query) ==
  LET n == toLowerCase(CharsOf(name))
      q == toLowerCase(CharsOf(query))
  IN \E i \in 1..Len(n), j \in 1..Len(n) : SubSeq(n, i, j) = q

\* C17: a removal by query removes every item whose name contains the query
\* ignoring case and keeps the others in order; the bucket-list tab is
\* selected if an item was removed, and the tab is unchanged if none was.
C17_RemoveAllMatches ==
  [][Logged("remove") =>
       /\ bucketList' = SelectSeq(bucketList,
            LAMBDA item : ~ContainsIgnoringCase(item.name, NewEvent.query))
       /\ selectedChatTab' =
            IF \E i \in 1..Len(bucketList) :
                 ContainsIgnoringCase(bucketList[i].name, NewEvent.query)
            THEN BUCKET_LIST ELSE selectedChatTab]_vars

\* C17 witness: one removal took two items out of the list and left one.
C17_Witness ==
  /\ events.recent # << >>
  /\ LastEvent.type = "remove" /\ LastEvent.removed = 2
  /\ Len(bucketList) = 1
  /\ selectedChatTab = BUCKET_LIST

\* C18: a removal whose query matches no item leaves the list and the
\* selected tab as they are.
C18_NoMatchRemoveNoEffect ==
  [][(Logged("remove") /\ \A i \in 1..Len(bucketList) :
                            ~ContainsIgnoringCase(bucketList[i].name, NewEvent.query))
       => bucketList' = bucketList /\ selectedChatTab' = selectedChatTab]_vars

\* C18 witness: the same query was dispatched twice in a row, matched no item
\* of a list that is not empty, and the chat tab is still selected.
C18_Witness ==
  /\ Len(events.recent) = 2
  /\ events.recent[1].type = "remove" /\ events.recent[1].outcome = "nomatch"
  /\ events.recent[2] = events.recent[1]
  /\ bucketList # << >>
  /\ selectedChatTab = GEMINI

\* C19: once the map is ready and the update has run, the ids with a marker
\* on the map are the ids of the list and the map holds no other bucket
\* marker; in every step, the marker of an id that stays in the list stays
\* the same marker and stays on the map.
C19_MarkersMatchList ==
  /\ []((MapReady /\ ~changed) =>
          /\ {bucketMarkers[k].id : k \in
                {j \in 1..Len(bucketMarkers) : bucketMarkers[j].marker \in mapChildren}}
               = Ids(bucketList)
          /\ mapChildren = {bucketMarkers[k].marker : k \in 1..Len(bucketMarkers)}
          /\ Len(bucketMarkers) = Cardinality(Ids(bucketList)))
  /\ [][\A k \in 1..Len(bucketMarkers) :
          (bucketMarkers[k].id \in Ids(bucketList) \cap Ids(bucketList')) =>
            /\ \E j \in 1..Len(bucketMarkers') : bucketMarkers'[j] = bucketMarkers[k]
            /\ (bucketMarkers[k].marker \in mapChildren
                  => bucketMarkers[k].marker \in mapChildren')]_vars

\* C19 witness: the map is ready, the update has run, one marker has been
\* deleted with its item and the markers of two items that stayed are on
\* the map.
C19_Witness ==
  /\ MapReady /\ ~changed
  /\ Len(bucketList) = 2 /\ Len(bucketMarkers) = 2
  /\ created.markers = 3
  /\ Cardinality(mapChildren) = 2

\* C20: once the update has run with a successful write, the storage holds
\* the serialization of the list and loading it yields the list; an update
\* whose write fails leaves the list and the storage as they were.
C20_StorageHoldsList ==
  /\ []((~changed /\ lastSave = "ok") =>
          /\ storage.kind = "json"
          /\ loadBucketList(storage) = bucketList)
  /\ [][(changed /\ ~changed' /\ lastSave' = "failed") =>
          bucketList' = bucketList /\ storage' = storage]_vars

\* C20 witness: a list with an item with notes and an item without has been
\* written.
C20_Witness ==
  /\ ~changed /\ lastSave = "ok" /\ storage.kind = "json"
  /\ Len(storage.items) = 2
  /\ \E i, j \in 1..Len(bucketList) :
       bucketList[i].notes = NoNotes /\ bucketList[j].notes # NoNotes


\* The stored value is a JSON array of BucketItem records.
WellFormedStored ==
  /\ rawStored.kind = "json" /\ rawStored.value.t = "array"
  /\ \A i \in 1..Len(rawStored.value.items) : rawStored.value.items[i].t = "item"

\* C21: when the stored value is absent, unreadable, not JSON, or JSON that
\* is not an array of BucketItem records, the list after startup is the
\* empty list and no later list operation fails.
C21_CorruptLoadsEmpty ==
  ~WellFormedStored =>
    /\ uncaught = "none"
    /\ loadOps = 0 => listValue = EmptyArray


\* The MapQuery the tool's description promises for its arguments.
ExpectedQuery(tool, a) ==
  CASE tool = "view_location_google_maps" ->
         [command |-> "VIEW", location |-> a.query, origin |-> UNDEFINED,
          destination |-> UNDEFINED, notes |-> UNDEFINED]
    [] tool = "directions_on_google_maps" ->
         [command |-> "DIRECTIONS", location |-> UNDEFINED, origin |-> a.origin,
          destination |-> a.destination, notes |-> UNDEFINED]
    [] tool = "add_to_bucket_list" ->
         [command |-> "ADD_BUCKET", location |-> a.location, origin |-> UNDEFINED,
          destination |-> UNDEFINED, notes |-> a.notes]
    [] tool = "remove_from_bucket_list" ->
         [command |-> "REMOVE_BUCKET", location |-> a.location,
          origin |-> UNDEFINED, destination |-> UNDEFINED, notes |-> UNDEFINED]
    [] tool = "enter_exploration_mode" ->
         [command |-> "EXPLORE", location |-> UNDEFINED, origin |-> UNDEFINED,
          destination |-> UNDEFINED, notes |-> UNDEFINED]
    [] tool = "start_orbit" ->
         [command |-> "ORBIT", location |-> UNDEFINED, origin |-> UNDEFINED,
          destination |-> UNDEFINED, notes |-> UNDEFINED]

\* C22: every tool invocation hands the router exactly one MapQuery, the one
\* with the tool's command and the invocation's arguments, and returns a
\* text.
C22_OneQueryPerInvocation ==
  /\ Len(routed) = Len(invoked)
  /\ \A i \in 1..Len(invoked) :
       /\ i <= Len(routed) =>
            routed[i].params = ExpectedQuery(invoked[i].tool, invoked[i].args)
       /\ invoked[i].text # << >>

\* C22 witness: an add with notes and a view have been invoked and routed.
C22_Witness ==
  /\ Len(invoked) = 2 /\ Len(routed) = 2
  /\ invoked[1].tool = "add_to_bucket_list" /\ invoked[1].args.notes # UNDEFINED
  /\ routed[1].params.command = "ADD_BUCKET" /\ routed[1].runs
  /\ invoked[2].tool = "view_location_google_maps"
  /\ routed[2].params.command = "VIEW"


\* The callback that ran last is the geocode callback of a VIEW command,
\* the lookup failed, and the command was dispatched in the step before.
ViewJustFailed ==
  /\ viewLast.kind = "geocode" /\ ~viewLast.ok
  /\ viewSteps.n = viewLast.at + 1

\* C23: after a VIEW command whose geocode lookup failed, the search marker,
\* the route elements, the route path, the current location and its name,
\* the panorama's visibility and the messages are what they were before the
\* command.
C23_FailedViewChangesNothing == ViewJustFailed => MapState = viewLast.before


\* The step is a timeout of an EXPLORE command firing; the step is an EXPLORE
\* command being dispatched.
ExploreTimerStep == timers' = timers - 1
ExploreStep == exploreLast' = "EXPLORE" /\ exploreCmds' = exploreCmds + 1
LocationAvailable == showPano \/ currentLocation # NoLocation

\* C24: an EXPLORE command and its delayed step never switch exploration
\* mode off, and when the last delayed step runs with a panorama or a current
\* location available, exploration mode is on afterwards.
C24_ExploreNeverExits ==
  [][/\ (ExploreTimerStep \/ ExploreStep) =>
          ~(isExplorationMode /\ ~isExplorationMode')
     /\ (ExploreTimerStep /\ timers' = 0 /\ LocationAvailable) =>
          isExplorationMode']_vars

\* C25: the step that dispatches ORBIT leaves orbit on, whatever it was.
C25_OrbitCommandEnables ==
  [][(exploreLast' = "ORBIT" /\ exploreCmds' = exploreCmds + 1) =>
       isOrbiting']_vars

\* C25 witness: ORBIT was dispatched last, in avatar mode, and orbit is on.
C25_Witness ==
  /\ exploreLast = "ORBIT" /\ isOrbiting /\ isAvatarMode /\ exploreCmds = 4

\* C26: the avatar loop and the standalone orbit loop never both have a
\* frame requested.
C26_OneLoopAtATime == ~(animationFrameId /\ orbitFrameId)

\* C26 witness: avatar mode was entered while orbiting: the avatar loop runs,
\* orbit is still on and the standalone loop is stopped.
C26_Witness ==
  /\ exploreLast = "toggleAvatarMode" /\ isAvatarMode /\ isOrbiting
  /\ animationFrameId /\ ~orbitFrameId

\* C27: the standalone orbit loop has a frame requested exactly when orbit is
\* on and avatar mode is off, and only then does a frame of that loop run.
C27_OrbitLoopIffOrbiting ==
  /\ [](orbitFrameId <=> (isOrbiting /\ ~isAvatarMode))
  /\ [][exploreLast' = "orbitFrame" => (isOrbiting /\ ~isAvatarMode)]_vars

\* C27 witness: avatar mode was left with orbit still on and the standalone
\* loop runs again.
C27_Witness ==
  /\ exploreLast = "toggleAvatarMode" /\ ~isAvatarMode /\ isOrbiting
  /\ orbitFrameId /\ isExplorationMode

\* C28: the step that leaves exploration mode leaves avatar mode and orbit
\* off, the avatar pose at (0, 0, 0) and no panorama object.
C28_ExitResetsSession ==
  [][(isExplorationMode /\ ~isExplorationMode') =>
       /\ ~isAvatarMode' /\ ~isOrbiting'
       /\ avatarPose' = [lat |-> 0, lng |-> 0, heading |-> 0]
       /\ ~panorama']_vars


ToolCallProcessed(c) ==
  /\ call[c].pc = "renderCall" /\ call[c].pendKind = "none"
  /\ call'[c].pc = "stream"

\* C30: when a fragment carrying only a tool call has been processed,
\* ChatState is EXECUTING.
C30_ToolCallSetsExecuting ==
  [][\A c \in Calls : ToolCallProcessed(c) => chatState' = EXECUTING]_vars

\* The angle between two bearings, in 0..180.
AngularDifference(a, b) ==
  LET d == (a - b) % 360 IN IF d > 180 THEN 360 - d ELSE d
\* The links of the last step that are at most 60 degrees off its target:
\* the heading it read for a forward step, the opposite one for a backward
\* step.
StepTarget ==
  IF panoLast.kind = "forward" THEN panoLast.heading ELSE panoLast.heading + 180
Qualifying ==
  {i \in 1..Len(panoLast.links) :
     AngularDifference(panoLast.links[i].heading, StepTarget) <= 60}
\* C31: a forward or backward step in panorama mode goes to a link with the
\* smallest angular difference among the links at most 60 degrees off the
\* heading (forward) or the opposite heading (backward), and stays when no
\* link qualifies, for every heading that rotations of 10 or 45 degrees reach.
C31_StepTakesClosestLink ==
  panoLast.kind \in {"forward", "backward"} =>
    IF Qualifying = {}
    THEN panoLast.to = panoLast.from
    ELSE \E i \in Qualifying :
           /\ panoLast.to = panoLast.links[i].pano
           /\ \A j \in Qualifying :
                AngularDifference(panoLast.links[i].heading, StepTarget)
                  <= AngularDifference(panoLast.links[j].heading, StepTarget)

\* The keyframes of the playback: the indexes 0, step, 2 step, ... in this
\* order.
InPathOrder(pb) ==
  \A k \in 1..Len(pb.visited) :
    pb.visited[k] = (k - 1) * KeyframeStep(Len(routePath))
\* C32: a flyover flies to its keyframes strictly in path order, one fly-to
\* at a time; once the playback flag was cleared during a playback (orbit
\* turned on, say) that playback starts no further keyframe; and a playback
\* that has ended left isSimulating false.
C32_FlyoverSequentialUntilCancelled ==
  \A p \in 1..Len(playbacks) :
    /\ InPathOrder(playbacks[p])
    /\ playbacks[p].late = 0
    /\ playbacks[p].pc = "returned" => ~playbacks[p].flagAtReturn

\* C33: for every stored path length n >= 1 a flyover visits at most 20
\* keyframes, taken at a fixed index step from the first path point.
C33_AtMostTwentyKeyframes ==
  \A p \in 1..Len(playbacks) :
    /\ Len(playbacks[p].visited) <= 20
    /\ InPathOrder(playbacks[p])

\* C37: a playback that was cancelled never issues a keyframe again, and no
\* two playbacks have a fly-to in progress at the same time.
C37_OnePlaybackLoop ==
  /\ \A p \in 1..Len(playbacks) :
       playbacks[p].cleared /\ playbacks[p].pc = "flying" =>
         playbacks[p].late = 0
  /\ Cardinality({p \in 1..Len(playbacks) : playbacks[p].pc = "flying"}) <= 1

\* No turn is in flight: every invocation so far has returned, thrown or
\* been rejected.
NoTurnInFlight == \A c \in Calls : call[c].pc \notin InFlightPcs
\* C34: the narration flag never carries over to a later turn: whenever the
\* turns so far have finalized (with or without text, stream failed or not)
\* and the requests made meanwhile were rejected, shouldSpeakNextResponse is
\* false; and the response to a typed turn, which requests no narration, is
\* never spoken.
C34_NarrationFlagNoCarryOver ==
  /\ NoTurnInFlight => ~shouldSpeakNextResponse
  /\ \A c \in Calls : call[c].via = "typed" => SpokenFor(c) = << >>

\* C35: when a turn has finalized, its answer message does not show the
\* '...' placeholder any more, whether the turn produced text, only thoughts,
\* only tool calls, only grounding sources or an error.
C35_NoPlaceholderLeft ==
  \A c \in Calls :
    (HandlerLeft(c) /\ call[c].textIdx # 0) => ~Includes(AnswerHtml(c), "...")

\* C36: at most one search marker is attached to the map: whenever the
\* current search marker stops being the current one (a command cleared it
\* or a callback put another in its place) it is no longer a child of the map,
\* for any order of VIEW commands, ADD_BUCKET commands for a listed place,
\* locate-me requests and their callbacks.
C36_OneSearchMarker ==
  [][(searchMarker # 0 /\ searchMarker' # searchMarker)
       => searchMarker \notin tempChildren']_vars

\* C38: avatar mode is on only inside exploration mode, for any sequence of
\* exploration toggles, view switches and voice commands, a voice result
\* delivered after exploration mode was left included.
C38_AvatarOnlyWhenExploring == isAvatarMode => isExplorationMode

\* The transcript handled last mentions 'first person' or 'street view'.
AsksForPanorama ==
  /\ voiceLast.n > 0
  /\ \/ StringIncludes(voiceLast.command, K_first_person)
     \/ StringIncludes(voiceLast.command, K_street_view)
\* C39: a voice command containing 'first person' or 'street view' leaves
\* avatar mode off: it is switched off if it was on and is never turned on.
C39_FirstPersonLeavesAvatarOff == AsksForPanorama => ~voiceLast.avatarAfter

====
